---------------------------- MODULE Spec2Model ----------------------------
(***************************************************************************)
(* The display engine of the ping-pong LED clock (class PLedDisp): the     *)
(* geometry tables, the colour resolver, the glyph, frame and background   *)
(* renderers and the compositor update_LEDs, as a state machine over the   *)
(* object's members.                                                       *)
(***************************************************************************)
EXTENDS Integers, Sequences, FiniteSets, TLC

(***************************************************************************)
(* Program constants (PLedDisp.h)                                          *)
(***************************************************************************)
NUM_LEDS == 128
MAX_TWINKLES == 8
MAX_RAINDROPS == 16
MAX_FIREWORKS == 5
REFRESH_RATE_HZ == 50
FRAME_TIME_MS == 1000 \div REFRESH_RATE_HZ
START_STAGE == 24
TWINKLE_STAGE == 16
ABSENT == 999
HUE_RED == 0
HUE_BLUE == 160

\* unsigned long is 32 bits wide; a value is kept as its two 16-bit halves
HALF == 65536
U32(hi, lo) == [hi |-> hi, lo |-> lo]
U32Add(a, d) ==
  U32((a.hi + (a.lo + d) \div HALF) % HALF, (a.lo + d) % HALF)
\* the difference as it would be were it not reduced modulo 2^32: zero
\* when b is the larger
U32SubNoWrap(a, b) ==
  IF a.hi < b.hi \/ (a.hi = b.hi /\ a.lo < b.lo) THEN U32(0, 0)
  ELSE LET l == a.lo - b.lo
           borrow == IF l < 0 THEN 1 ELSE 0
       IN U32(a.hi - b.hi - borrow, (l + HALF) % HALF)

U32Sub(a, b) ==
  LET l == a.lo - b.lo
      borrow == IF l < 0 THEN 1 ELSE 0
  IN U32((a.hi - b.hi - borrow + 2 * HALF) % HALF, (l + HALF) % HALF)
\* a > n for a small n
U32Gt(a, n) == a.hi > 0 \/ a.lo > n

Pixels == 0 .. (NUM_LEDS - 1)

(***************************************************************************)
(* Colours.  A pixel holds either an RGB triple or the result of FastLED's *)
(* CHSV -> CRGB conversion, kept as the HSV triple it was converted from   *)
(* (components are uint8_t, so they are reduced modulo 256).               *)
(***************************************************************************)
CRGB(r, g, b) == [k |-> "rgb", x |-> r % 256, y |-> g % 256, z |-> b % 256]
CHSV(h, s, v) == [k |-> "hsv", x |-> h % 256, y |-> s % 256, z |-> v % 256]

Black == CRGB(0, 0, 0)
White == CRGB(255, 255, 255)
Gray == CRGB(128, 128, 128)
Yellow == CRGB(255, 255, 0)
Red == CRGB(255, 0, 0)
DarkOrange == CRGB(255, 140, 0)
Peru == CRGB(205, 133, 63)
LightBlue == CRGB(173, 216, 230)
DarkGrey == CRGB(169, 169, 169)

(***************************************************************************)
(* Geometry tables.  C arrays are 0-based; the accessors below take the    *)
(* 0-based indices of the source.                                          *)
(***************************************************************************)
LATTICE_ROWS == 7
LATTICE_COLS == 20

led_address_rows ==
  << <<999, 999, 999, 12, 13, 26, 27, 40, 41, 54, 55, 68, 69, 82, 83, 96, 97, 110, 111, 124>>,
     <<999, 999, 1, 11, 14, 25, 28, 39, 42, 53, 56, 67, 70, 81, 84, 95, 98, 109, 112, 123>>,
     <<999, 2, 10, 15, 24, 29, 38, 43, 52, 57, 66, 71, 80, 85, 94, 99, 108, 113, 122, 125>>,
     <<0, 3, 9, 16, 23, 30, 37, 44, 51, 58, 65, 72, 79, 86, 93, 100, 107, 114, 121, 126>>,
     <<4, 8, 17, 22, 31, 36, 45, 50, 59, 64, 73, 78, 87, 92, 101, 106, 115, 120, 127, 999>>,
     <<5, 7, 18, 21, 32, 35, 46, 49, 60, 63, 74, 77, 88, 91, 102, 105, 116, 119, 999, 999>>,
     <<6, 19, 20, 33, 34, 47, 48, 61, 62, 75, 76, 89, 90, 103, 104, 117, 118, 999, 999, 999>> >>

digits_rows ==
  << <<7, 8, 10, 11, 14, 18, 22, 24, 0, 0>>,
     <<14, 15, 16, 17, 18, 0, 0, 0, 0, 0>>,
     <<7, 8, 9, 11, 14, 16, 18, 24, 0, 0>>,
     <<7, 9, 11, 14, 16, 18, 22, 24, 0, 0>>,
     <<9, 10, 11, 16, 18, 22, 24, 0, 0, 0>>,
     <<7, 9, 10, 11, 14, 16, 18, 22, 0, 0>>,
     <<7, 8, 9, 14, 15, 16, 18, 22, 0, 0>>,
     <<7, 11, 14, 16, 17, 24, 0, 0, 0, 0>>,
     <<7, 8, 9, 10, 11, 14, 16, 18, 22, 24>>,
     <<7, 9, 10, 11, 14, 16, 17, 24, 0, 0>> >>

digits_len_row == <<8, 5, 8, 8, 7, 8, 8, 6, 10, 8>>

slant_digits_rows ==
  << <<39, 42, 53, 52, 44, 45, 35, 32, 21, 31, 30, 38, 0>>,
     <<35, 45, 44, 52, 53, 0, 0, 0, 0, 0, 0, 0, 0>>,
     <<39, 42, 53, 52, 44, 37, 30, 31, 21, 32, 35, 0, 0>>,
     <<39, 42, 53, 52, 44, 37, 30, 45, 35, 32, 21, 0, 0>>,
     <<39, 38, 30, 37, 44, 52, 53, 45, 35, 0, 0, 0, 0>>,
     <<53, 42, 39, 38, 30, 37, 44, 45, 35, 32, 21, 0, 0>>,
     <<53, 42, 39, 38, 30, 37, 44, 45, 35, 32, 21, 31, 0>>,
     <<39, 42, 53, 52, 44, 45, 35, 38, 0, 0, 0, 0, 0>>,
     <<53, 42, 39, 38, 30, 37, 44, 45, 35, 32, 21, 31, 52>>,
     <<53, 42, 39, 38, 30, 37, 44, 45, 35, 32, 21, 52, 0>> >>

slant_digits_len_row == <<12, 5, 11, 11, 9, 11, 12, 8, 13, 12>>

frame_row ==
  <<68, 69, 82, 83, 96, 97, 110, 111, 124,
    123, 125, 126, 127, 119,
    118, 117, 104, 103, 90, 89, 76, 75, 62, 61, 48, 47, 34, 33, 20, 19, 6,
    5, 4, 0, 2, 1,
    12, 13, 26, 27, 40, 41, 54, 55>>

ErrorIndicatorAdr_row == <<118, 119, 127, 126>>

RECURSIVE Flatten(_)
Flatten(rows) == IF rows = <<>> THEN <<>> ELSE Head(rows) \o Flatten(Tail(rows))

\* The constant tables lie in the object in declaration order; an index past
\* a row or past the last row of led_address reads on in that order.
led_address_flat == Flatten(led_address_rows)
ConstTail ==
  Flatten(digits_rows) \o digits_len_row \o Flatten(slant_digits_rows)
    \o slant_digits_len_row \o frame_row
\* the lookup as it would be with rows of 19 columns
led_address_19(row, col) ==
  LET k == row * (LATTICE_COLS - 1) + col + 1
  IN IF k <= Len(led_address_flat) THEN led_address_flat[k]
     ELSE ConstTail[k - Len(led_address_flat)]

led_address(row, col) ==
  LET flat == row * LATTICE_COLS + col
  IN IF flat < Len(led_address_flat) THEN led_address_flat[flat + 1]
     ELSE ConstTail[flat - Len(led_address_flat) + 1]
digits(num, i) == digits_rows[num + 1][i + 1]
digits_len(num) == digits_len_row[num + 1]
slant_digits(num, i) == slant_digits_rows[num + 1][i + 1]
slant_digits_len(num) == slant_digits_len_row[num + 1]
frame(i) == frame_row[i + 1]
framelength == Len(frame_row)
\* the indicator pixels as they would be were the table in ascending order
ErrorIndicatorAdrAscending(i) == <<118, 119, 126, 127>>[i + 1]
ErrorIndicatorAdr(i) == ErrorIndicatorAdr_row[i + 1]
NUM_INDICATORS == Len(ErrorIndicatorAdr_row)


(***************************************************************************)
(* State: the members of PLedDisp, and what the environment observes.      *)
(***************************************************************************)
VARIABLES
  Fg,              \* struct Foreground {Mode, Color, is_slant}
  Bg,              \* struct Background {Mode, Color}
  Fr,              \* struct Frame {Mode, Color}
  leds,            \* CRGB leds[NUM_LEDS]
  bg_colour,       \* CHSV bg_colour (the hue cursor)
  ErrorIndicator,  \* int ErrorIndicator[4]
  currentMillis,   \* unsigned long currentMillis
  previousMillis,  \* unsigned long previousMillis
  cycle_counter,   \* int cycle_counter
  bg_counter,      \* int bg_counter (the hue throttle)
  twinkles,        \* twinkle_t twinkles[MAX_TWINKLES]
  raindrops,       \* rain_t raindrops[MAX_RAINDROPS]
  fireworks,       \* firework_t fireworks[MAX_FIREWORKS]
  build,           \* what the build makes of a store past the end of prev_pos
  op,              \* the last operation called on the object
  wr,              \* the buffer stores of the last eligible tick, per layer
  sink,            \* the frame the display sink received at the last show()
  shows,           \* number of show() calls so far
  now,             \* what RTC_TIME.now() returned to the last eligible tick:
                   \* fr in the frame switch, fg in the foreground switch,
                   \* and how many times the tick called it (reads)
  seen,            \* Fg as the last eligible tick read it: sel in the
                   \* foreground switch, draw in the renderer it called
  ret,             \* the value the last call of SetTimerAnimation returned
  globals          \* main.cpp: SmaTime, ClockInManualMode and
                   \* NbrRepeatTrainAnimation; pc, where the main task
                   \* stands in its loop; prev, the phase the last call of
                   \* UpdateTimeSma selected, and before, the phase the
                   \* call before it selected; manual, whether the MQTT
                   \* handler has applied manual settings since the last
                   \* call of UpdateTimeSma made in automatic mode

vars == <<Fg, Bg, Fr, leds, bg_colour, ErrorIndicator, currentMillis,
          previousMillis, cycle_counter, bg_counter, twinkles, raindrops,
          fireworks, build, op, wr, sink, shows, now, seen, ret, globals>>

ModeFG == {"None", "Time", "TimeRainbow", "Cycle"}
ModeBG == {"None", "SolidColor", "ScrollingRainbow", "Twinkle", "Fireworks",
           "Thunderstorm", "Firepit"}
ModeFR == {"None", "SolidColor", "Time"}

TwinkleSlots == 0 .. (MAX_TWINKLES - 1)
RainSlots == 0 .. (MAX_RAINDROPS - 1)
FireworkSlots == 0 .. (MAX_FIREWORKS - 1)
PREV_POS_LEN == 6
Indicators == 0 .. (NUM_INDICATORS - 1)

(***************************************************************************)
(* FastLED random8: a raw byte r of the generator, scaled as the library   *)
(* scales it.                                                              *)
(***************************************************************************)
\* per-cell draws are given as the set of cells whose raw byte is 255
Raw(high) == IF high THEN 255 ELSE 0
random8_lim(r, lim) == (r * lim) \div 256
random8_range(r, min, lim) == min + random8_lim(r, lim - min)

(***************************************************************************)
(* The working state of one tick: the members a tick may change, and the   *)
(* stores it makes.  w: the indices used in leds[...] = stores of the      *)
(* current layer; pp: the indices used in prev_pos[...]; lat: the lattice  *)
(* coordinates looked up in led_address.                                   *)
(***************************************************************************)
Work ==
  [leds |-> leds, twinkles |-> twinkles, raindrops |-> raindrops,
   fireworks |-> fireworks, bg_colour |-> bg_colour,
   bg_counter |-> bg_counter, cycle_counter |-> cycle_counter,
   w |-> {}, pp |-> {}, lat |-> {}]

\* a C array as a function, its elements evaluated
Array(f) == f @@ f

Last(S) == CHOOSE k \in S : \A j \in S : j <= k

\* A run of stores leds[st[k][1]] = st[k][2], k = 1..Len(st), in order.
\* leds is followed in the object by bg_colour (3 bytes), so a store at
\* index NUM_LEDS lands on the hue cursor; any other index outside the
\* array lands outside the members modelled here.
Stores(M, stores) ==
  LET st == stores \o <<>>
      used == {st[k][1] : k \in 1 .. Len(st)}
      hits(i) == {k \in 1 .. Len(st) : st[k][1] = i}
      over == {k \in hits(NUM_LEDS) : st[k][2].k = "rgb"}
  IN [M EXCEPT
        !.leds = Array([i \in Pixels |->
                    IF i \in used THEN st[Last(hits(i))][2] ELSE @[i]]),
        !.bg_colour = IF over = {} THEN @
                      ELSE LET c == st[Last(over)][2]
                           IN [hue |-> c.x, sat |-> c.y, val |-> c.z],
        !.w = @ \cup used]

\* leds[i] = c
Put(M, i, c) == Stores(M, << <<i, c>> >>)

\* the check as it would be without its lower bound
InBufferAbove(s) == s[1] < NUM_LEDS

\* a store whose index the code has checked to be in [0, NUM_LEDS)
InBuffer(s) == s[1] >= 0 /\ s[1] < NUM_LEDS
\* a store whose index the frame renderers let through
InFrameCheck(s) == s[1] >= 0 /\ s[1] <= NUM_LEDS

\* a clear that would leave the buffer as the last tick left it
ClearSkipped(M) == M

\* FastLED.clear(): the whole buffer to black
Clear(M) == [M EXCEPT !.leds = Array([i \in Pixels |-> Black])]

(***************************************************************************)
(* Colour resolver                                                         *)
(***************************************************************************)
\* the resolver as it would be with the rainbow for TimeRainbow alone
fg_paletteTimeOnly(indx, fg, hc) ==
  IF indx < 0 /\ indx >= NUM_LEDS THEN Black
  ELSE IF fg.Mode = "TimeRainbow"
       THEN CHSV((hc.hue + indx) % 256, hc.sat, hc.val)
       ELSE fg.Color

fg_palette(indx, fg, hc) ==
  IF indx < 0 /\ indx >= NUM_LEDS THEN Black
  ELSE IF fg.Mode = "TimeRainbow" \/ fg.Mode = "Cycle"
       THEN CHSV((hc.hue + indx) % 256, hc.sat, hc.val)
       ELSE fg.Color

(***************************************************************************)
(* Glyph renderer                                                          *)
(***************************************************************************)
\* the index as it would be without the step over pixel 6
SlantIndexUnstepped(e, offset) == e + offset - 28

\* the index a slanted glyph entry resolves to
SlantIndex(e, offset) ==
  LET indx == e + offset - 28 IN IF indx < 7 THEN indx + 1 ELSE indx

\* the stores of disp_digit, in order
DigitStores(num, offset, fg, hc) ==
  IF fg.is_slant
  THEN SelectSeq([i \in 1 .. slant_digits_len(num) |->
                    LET indx == SlantIndex(slant_digits(num, i - 1), offset)
                    IN <<indx, fg_palette(indx, fg, hc)>>],
                 InBuffer)
  ELSE [i \in 1 .. digits_len(num) |->
          LET indx == digits(num, i - 1) + offset
          IN <<indx, fg_palette(indx, fg, hc)>>]

disp_digit(M, num, offset, fg) ==
  Stores(M, DigitStores(num, offset, fg, M.bg_colour))

\* the hue cursor's throttled advance (disp_time and bg_rainbow share it)
HueStep(M) ==
  IF M.bg_counter < REFRESH_RATE_HZ \div 4
  THEN [M EXCEPT !.bg_counter = @ + 1]
  ELSE [M EXCEPT !.bg_colour.hue = (@ + 1) % 256, !.bg_counter = 0]

\* the separator as it would be with the slanted lower dot in both styles
TickStoresSlanted(time, fg, hc) ==
  IF time.s % 2 = 0
  THEN << <<66, fg_palette(66, fg, hc)>>, <<59, fg_palette(59, fg, hc)>> >>
  ELSE <<>>

\* the separator as it would be were it lit in the odd seconds
TickStoresOdd(time, fg, hc) ==
  IF time.s % 2 = 1
  THEN << <<66, fg_palette(66, fg, hc)>>,
          IF fg.is_slant THEN <<59, fg_palette(59, fg, hc)>>
          ELSE <<64, fg_palette(64, fg, hc)>> >>
  ELSE <<>>

\* the separator stores of disp_time
TickStores(time, fg, hc) ==
  IF time.s % 2 = 0
  THEN << <<66, fg_palette(66, fg, hc)>>,
          IF fg.is_slant THEN <<59, fg_palette(59, fg, hc)>>
          ELSE <<64, fg_palette(64, fg, hc)>> >>
  ELSE <<>>

disp_time(M, time, fg) ==
  LET M0 == IF fg.Mode = "TimeRainbow" \/ fg.Mode = "Cycle" THEN HueStep(M) ELSE M
      hc == M0.bg_colour
  IN Stores(M0, DigitStores(time.h \div 10, 0, fg, hc)
                  \o DigitStores(time.h % 10, 28, fg, hc)
                  \o DigitStores(time.m \div 10, 70, fg, hc)
                  \o DigitStores(time.m % 10, 70 + 28, fg, hc)
                  \o TickStores(time, fg, hc))

\* the cycle number as it would be with its leading zeros drawn
disp_numberPadded(M, Digit3, Digit2, Digit1, Digit0, fg) ==
  Stores(M, DigitStores(Digit3, 14, fg, M.bg_colour)
              \o DigitStores(Digit2, 42, fg, M.bg_colour)
              \o DigitStores(Digit1, 70, fg, M.bg_colour)
              \o DigitStores(Digit0, 70 + 28, fg, M.bg_colour))

disp_number(M, Digit3, Digit2, Digit1, Digit0, fg) ==
  LET NbrForDisplay == Digit3 * 1000 + Digit2 * 100 + Digit1 * 10 + Digit0
      hc == M.bg_colour
  IN Stores(M,
       (IF NbrForDisplay >= 1000 THEN DigitStores(Digit3, 14, fg, hc) ELSE <<>>)
       \o (IF NbrForDisplay >= 100 THEN DigitStores(Digit2, 42, fg, hc) ELSE <<>>)
       \o (IF NbrForDisplay >= 10 THEN DigitStores(Digit1, 70, fg, hc) ELSE <<>>)
       \o (IF NbrForDisplay >= 0 THEN DigitStores(Digit0, 70 + 28, fg, hc) ELSE <<>>))

(***************************************************************************)
(* Frame renderer                                                          *)
(***************************************************************************)
\* the first n entries of the frame outline, set to the frame colour
FrameStores(fr, n) ==
  SelectSeq([i \in 1 .. n |-> <<frame(i - 1), fr.Color>>], InFrameCheck)

\* the solid frame as it would be with the loop one entry short
fr_solidColorShort(M, fr) == Stores(M, FrameStores(fr, framelength - 1))

fr_solidColor(M, fr) == Stores(M, FrameStores(fr, framelength))

\* the sweep as it would be were the minute divided by 60
SweepLengthBy60(second) ==
  LET length == (second * framelength) \div 60
  IN IF length < 0 THEN 0
     ELSE IF length > framelength THEN framelength ELSE length

\* int length = (second * double(framelength)) / 59, then clamped
SweepLength(second) ==
  LET length == (second * framelength) \div 59
  IN IF length < 0 THEN 0
     ELSE IF length > framelength THEN framelength ELSE length

fr_time(M, time, fr) == Stores(M, FrameStores(fr, SweepLength(time.s)))

(***************************************************************************)
(* Stateless backgrounds                                                   *)
(***************************************************************************)
bg_solidColor(M, bg) ==
  [M EXCEPT !.leds = Array([i \in Pixels |-> bg.Color]), !.w = @ \cup Pixels]

bg_rainbow(M) ==
  LET M1 == HueStep(M)
  IN [M1 EXCEPT !.leds = Array([i \in Pixels |->
                            CHSV((M1.bg_colour.hue + i) % 256,
                                 M1.bg_colour.sat, M1.bg_colour.val)]),
                !.w = @ \cup Pixels]

\* the stores leds[led_address[row][col]] = c for a run of cells
\* <<row, col, c>>, with the cells looked up
LatStores(M, cells) ==
  Stores([M EXCEPT !.lat = @ \cup {<<cells[k][1], cells[k][2]>> : k \in 1 .. Len(cells)}],
         [k \in 1 .. Len(cells) |->
            <<led_address(cells[k][1], cells[k][2]), cells[k][3]>>])

\* the first slot whose pos is -1, or -1
EmptySlot(pool, n) ==
  LET free == {i \in 0 .. (n - 1) : pool[i].pos = -1}
  IN IF free = {} THEN -1 ELSE CHOOSE i \in free : \A j \in free : i <= j

(***************************************************************************)
(* Twinkle                                                                 *)
(***************************************************************************)
TwinkleSpawn(M, R) ==
  LET empty_slot == EmptySlot(M.twinkles, MAX_TWINKLES)
  IN IF R.spawn < 96 /\ empty_slot # -1
     THEN [M EXCEPT !.twinkles[empty_slot] =
                       [pos |-> R.tpos, stage |-> TWINKLE_STAGE]]
     ELSE M

\* the fade as it would be on the fireworks' scale
TwinkleBrightnessSteep(stage) == 16 * stage

TwinkleBrightness(stage) == 8 * stage

\* one slot after the loop body
TwinkleAdvance(t) ==
  IF t.pos # -1 /\ t.stage > 0
  THEN [pos |-> IF t.stage - 1 = 0 THEN -1 ELSE t.pos, stage |-> t.stage - 1]
  ELSE t

\* the loop over the slots: the slots do not read one another
TwinkleLoop(M) ==
  LET Lit(i) == M.twinkles[i].pos # -1 /\ M.twinkles[i].stage > 0
      lit == SelectSeq([k \in 1 .. MAX_TWINKLES |-> k - 1], Lit)
      M1 == Stores(M, [k \in 1 .. Len(lit) |->
                         LET t == M.twinkles[lit[k]]
                             brightness == TwinkleBrightness(t.stage)
                         IN <<t.pos, CRGB(brightness, brightness, brightness)>>])
  IN [M1 EXCEPT !.twinkles = Array([i \in TwinkleSlots |-> TwinkleAdvance(@[i])])]

bg_twinkle(M, R) == TwinkleLoop(TwinkleSpawn(M, R))

(***************************************************************************)
(* Fireworks                                                               *)
(***************************************************************************)
FireworkSpawn(M, R) ==
  LET empty_slot == EmptySlot(M.fireworks, MAX_FIREWORKS)
  IN IF R.spawn < 24 /\ empty_slot # -1
     THEN [M EXCEPT !.fireworks[empty_slot] =
                       [pos |-> random8_range(R.fpos, 3, 14),
                        stage |-> START_STAGE,
                        direction |-> random8_range(R.fdir, 0, 2),
                        hue |-> R.fhue,
                        height_offset |-> random8_range(R.foff, 0, 2)]]
     ELSE M

\* the six cells at distance d around (x, y), in the order of the source
Star(x, y, d, c) ==
  << <<y - d, x + d, c>>, <<y, x + d, c>>, <<y + d, x, c>>,
     <<y + d, x - d, c>>, <<y, x - d, c>>, <<y - d, x, c>> >>

FireworkBrightness(stage) == 16 * stage

\* the cells one firework sets in a tick
FireworkCells(f) ==
  LET y == 2 + f.height_offset
      x == f.pos + 4 * f.direction
  IN IF f.stage = START_STAGE
     THEN << <<6, f.pos, White>> >>
     ELSE IF f.stage >= 20 + f.height_offset
     THEN LET level == 6 - (24 - f.stage)
          IN << <<level, f.pos + (6 - level) * f.direction, White>>,
                <<level + 1, f.pos + (6 - level + 1) * f.direction, Black>> >>
     ELSE IF f.stage = 18 \/ f.stage = 17
     THEN << <<y, x, Black>> >> \o Star(x, y, 1, CHSV(f.hue, 255, 255))
     ELSE IF f.stage = 16
     THEN << <<y, x, Black>> >> \o Star(x, y, 1, Black)
            \o Star(x, y, 2, CHSV(f.hue, 255, 255))
     ELSE IF f.stage > 0
     THEN Star(x, y, 2, CHSV(f.hue, 255, FireworkBrightness(f.stage)))
     ELSE <<>>

\* the slot as it would be were it kept when the stage runs out
FireworkAdvanceKeepsSlot(f) ==
  IF f.pos # -1 /\ f.stage > 0 THEN [f EXCEPT !.stage = f.stage - 1] ELSE f

FireworkAdvance(f) ==
  IF f.pos # -1 /\ f.stage > 0
  THEN [f EXCEPT !.stage = f.stage - 1,
                 !.pos = IF f.stage - 1 = 0 THEN -1 ELSE f.pos]
  ELSE f

\* the loop over the slots: the slots do not read one another
FireworkLoop(M) ==
  LET cells == Flatten([k \in 1 .. MAX_FIREWORKS |->
                          LET f == M.fireworks[k - 1]
                          IN IF f.pos # -1 /\ f.stage > 0
                             THEN FireworkCells(f) ELSE <<>>])
      M1 == LatStores(M, cells)
  IN [M1 EXCEPT !.fireworks = Array([i \in FireworkSlots |-> FireworkAdvance(@[i])])]

bg_firework(M, R) == FireworkLoop(FireworkSpawn(M, R))

(***************************************************************************)
(* Firepit                                                                 *)
(***************************************************************************)
\* the ember colour as it would be with one brightness band for all levels
FirepitColourOneBand(level, rh, rv) ==
  CHSV(HUE_RED + random8_lim(rh, 8), 255, random8_range(rv, 192, 255))

FirepitColour(level, rh, rv) ==
  CHSV(HUE_RED + random8_lim(rh, 8), 255,
       random8_range(rv, 192 - (6 - level) * 64, 255 - (6 - level) * 64))

FirepitRow(R, level) ==
  [k \in 1 .. (17 + (6 - level)) |->
     <<level, k - 1,
       FirepitColour(level, Raw(<<level, k - 1>> \in R.pitH),
                     Raw(<<level, k - 1>> \in R.pitV))>>]

bg_firepit(M, R) ==
  LatStores(M, FirepitRow(R, 6) \o FirepitRow(R, 5) \o FirepitRow(R, 4)
                 \o FirepitRow(R, 3))

(***************************************************************************)
(* Thunderstorm.  rain_t is {int pos; int stage; bool lightning;           *)
(* int prev_pos[6]}: nine words, prev_pos last, so prev_pos[6] of slot i   *)
(* is the word after the slot: raindrops[i+1].pos, and for the last slot   *)
(* fireworks[0].pos (firework_t is five words).  Indexing prev_pos past    *)
(* its end is undefined behaviour; build says what the build makes of it:  *)
(*   "adjacent"  the access goes to the word at that address               *)
(*   "elided"    the store is dropped                                      *)
(***************************************************************************)
RAIN_WORDS == 9
FIREWORK_WORDS == 5
Builds == {"adjacent", "elided"}

\* the word index, within the pools, of raindrops[i].prev_pos[k]
RainFlat(i, k) == i * RAIN_WORDS + 3 + k

WordRead(M, flat) ==
  IF flat < MAX_RAINDROPS * RAIN_WORDS
  THEN LET d == M.raindrops[flat \div RAIN_WORDS]
           f == flat % RAIN_WORDS
       IN CASE f = 0 -> d.pos
            [] f = 1 -> d.stage
            [] f = 2 -> d.lightning
            [] OTHER -> d.prev_pos[f - 3]
  ELSE LET off == flat - MAX_RAINDROPS * RAIN_WORDS
           fw == M.fireworks[off \div FIREWORK_WORDS]
           f == off % FIREWORK_WORDS
       IN CASE f = 0 -> fw.pos
            [] f = 1 -> fw.direction
            [] f = 2 -> fw.stage
            [] f = 3 -> fw.hue
            [] OTHER -> fw.height_offset

WordWrite(M, flat, v) ==
  IF flat < MAX_RAINDROPS * RAIN_WORDS
  THEN LET s == flat \div RAIN_WORDS
           f == flat % RAIN_WORDS
       IN CASE f = 0 -> [M EXCEPT !.raindrops[s].pos = v]
            [] f = 1 -> [M EXCEPT !.raindrops[s].stage = v]
            [] f = 2 -> [M EXCEPT !.raindrops[s].lightning = v]
            [] OTHER -> [M EXCEPT !.raindrops[s].prev_pos[f - 3] = v]
  ELSE LET off == flat - MAX_RAINDROPS * RAIN_WORDS
           s == off \div FIREWORK_WORDS
           f == off % FIREWORK_WORDS
       IN CASE f = 0 -> [M EXCEPT !.fireworks[s].pos = v]
            [] f = 1 -> [M EXCEPT !.fireworks[s].direction = v]
            [] f = 2 -> [M EXCEPT !.fireworks[s].stage = v]
            [] f = 3 -> [M EXCEPT !.fireworks[s].hue = v % 256]
            [] OTHER -> [M EXCEPT !.fireworks[s].height_offset = v]

\* raindrops[i].prev_pos[k], read
PrevPosRead(M, i, k) ==
  IF k \in 0 .. (PREV_POS_LEN - 1) THEN M.raindrops[i].prev_pos[k]
  ELSE WordRead(M, RainFlat(i, k))

\* raindrops[i].prev_pos[k] = v
PrevPosWrite(M, b, i, k, v) ==
  LET M1 == [M EXCEPT !.pp = @ \cup {k}]
  IN IF k \in 0 .. (PREV_POS_LEN - 1)
     THEN [M1 EXCEPT !.raindrops[i].prev_pos[k] = v]
     ELSE IF b = "adjacent" THEN WordWrite(M1, RainFlat(i, k), v)
     ELSE M1

\* x = (x >= 0 && x < 20) ? x : 0
ClampCol(x) == IF x >= 0 /\ x < 20 THEN x ELSE 0

Drift(R, step) == random8_range(Raw(step \in R.left), 0, 2)

RainSky(M, R) ==
  LatStores(M, [k \in 1 .. 17 |-> <<0, k + 2, Gray>>]
                 \o [k \in 1 .. 18 |->
                       <<1, k + 1,
                         CHSV(0, 0, random8_range(Raw((k + 1) \in R.skyHi),
                                                  64, 128))>>])

RainSpawnColumn(r) == random8_range(r, 3, 21)

RainSpawn(M, R) ==
  LET empty_slot == EmptySlot(M.raindrops, MAX_RAINDROPS)
  IN IF R.spawn < 200 /\ empty_slot # -1
     THEN LET pos == RainSpawnColumn(R.rpos)
          IN [M EXCEPT !.raindrops[empty_slot].pos = pos,
                       !.raindrops[empty_slot].stage = 1,
                       !.raindrops[empty_slot].lightning =
                           random8_range(R.light, 0, 20) \div 19,
                       !.raindrops[empty_slot].prev_pos[0] = pos,
                       !.pp = @ \cup {0}]
     ELSE M

\* the column of a lightning path at row j, from the spawn column x0
RECURSIVE StrikeCol(_, _, _)
StrikeCol(R, x0, j) ==
  IF j = 0 THEN x0 ELSE ClampCol(StrikeCol(R, x0, j - 1) - Drift(R, j))

\* stage 1 of a lightning drop: the path through rows 1..6
LightningStrike(M, R, i) ==
  LET x0 == M.raindrops[i].pos
      col(j) == StrikeCol(R, x0, j)
      Valid(j) == led_address(j, col(j)) >= 0 /\ led_address(j, col(j)) < NUM_LEDS
      rows == SelectSeq([j \in 1 .. 6 |-> j], Valid)
      M1 == Stores([M EXCEPT !.lat = @ \cup {<<j, col(j)>> : j \in 1 .. 6}],
                   [k \in 1 .. Len(rows) |->
                      <<led_address(rows[k], col(rows[k])), Yellow>>])
  IN [M1 EXCEPT
        !.raindrops[i].prev_pos =
           Array([k \in 0 .. (PREV_POS_LEN - 1) |->
              IF Valid(k + 1) THEN led_address(k + 1, col(k + 1)) ELSE @[k]]),
        !.pp = @ \cup {j - 1 : j \in {r \in 1 .. 6 : Valid(r)}}]

\* leds[prev_pos[j]] = c for j = 0..5
PathFill(M, i, c) ==
  Stores([M EXCEPT !.pp = @ \cup (0 .. 5)],
         [k \in 1 .. 6 |-> <<M.raindrops[i].prev_pos[k - 1], c>>])

RainFall(M, R, b, i) ==
  LET stage == M.raindrops[i].stage
      x == ClampCol(PrevPosRead(M, i, stage - 1) - Drift(R, stage))
      M1 == PrevPosWrite([M EXCEPT !.pp = @ \cup {stage - 1}], b, i, stage, x)
      indx == IF stage * LATTICE_COLS + x
                   < Len(led_address_flat) + Len(ConstTail)
              THEN led_address(stage, x)
              ELSE R.heap
      M2 == [M1 EXCEPT !.lat = @ \cup {<<stage, x>>}]
  IN IF indx >= 0 /\ indx < NUM_LEDS
     THEN Put(M2, indx, CHSV(HUE_BLUE, 255, 128))
     ELSE [M2 EXCEPT !.raindrops[i].stage = 6]

RainAdvance(M, R, b, i) ==
  LET d == M.raindrops[i]
  IN IF d.pos # -1 /\ d.stage > 0
     THEN LET M1 == IF d.lightning # 0 /\ d.stage = 1
                    THEN LightningStrike(M, R, i)
                    ELSE IF d.lightning # 0 /\ d.stage > 1 /\ d.stage < 7
                    THEN PathFill(M, i, Yellow)
                    ELSE RainFall(M, R, b, i)
              M2 == [M1 EXCEPT !.raindrops[i].stage = @ + 1]
          IN IF M2.raindrops[i].stage = 7 /\ M2.raindrops[i].lightning # 0
             THEN PathFill([M2 EXCEPT !.raindrops[i].pos = -1], i, Black)
             ELSE IF M2.raindrops[i].stage = 7 /\ M2.raindrops[i].lightning = 0
             THEN [M2 EXCEPT !.raindrops[i].pos = -1]
             ELSE M2
     ELSE M

RECURSIVE RainLoop(_, _, _, _)
RainLoop(M, R, b, i) ==
  IF i >= MAX_RAINDROPS THEN M ELSE RainLoop(RainAdvance(M, R, b, i), R, b, i + 1)

bg_rain(M, R, b) == RainLoop(RainSpawn(RainSky(M, R), R), R, b, 0)



(***************************************************************************)
(* Compositor                                                              *)
(***************************************************************************)
\* the throttle as it would be were the interval itself let through
FrameDueAtInterval(cur, prev) ==
  LET e == U32Sub(cur, prev) IN e.hi > 0 \/ e.lo >= FRAME_TIME_MS

\* (currentMillis - previousMillis) > FRAME_TIME_MS, in unsigned long
FrameDue(cur, prev) == U32Gt(U32Sub(cur, prev), FRAME_TIME_MS)

BackgroundLayer(M, bg, R, b) ==
  CASE bg.Mode = "None" -> Clear(M)
    [] bg.Mode = "SolidColor" -> bg_solidColor(M, bg)
    [] bg.Mode = "ScrollingRainbow" -> bg_rainbow(M)
    [] bg.Mode = "Twinkle" -> bg_twinkle(Clear(M), R)
    [] bg.Mode = "Fireworks" -> bg_firework(Clear(M), R)
    [] bg.Mode = "Thunderstorm" -> bg_rain(Clear(M), R, b)
    [] bg.Mode = "Firepit" -> bg_firepit(Clear(M), R)
    [] OTHER -> M

FrameLayer(M, fr, time) ==
  CASE fr.Mode = "None" -> M
    [] fr.Mode = "Time" -> fr_time(M, time, fr)
    [] fr.Mode = "SolidColor" -> fr_solidColor(M, fr)
    [] OTHER -> M

\* the foreground as it would be were the cycle counter left to run on
ForegroundLayerNoWrap(M, sel, fg, time) ==
  CASE sel.Mode \in {"Time", "TimeRainbow"} -> disp_time(M, time, fg)
    [] sel.Mode = "Cycle" ->
         LET c == M.cycle_counter
             M1 == disp_number(M, (c \div 1000) % 10, (c \div 100) % 10,
                               (c \div 10) % 10, c % 10, fg)
         IN [M1 EXCEPT !.cycle_counter = c + 1]
    [] OTHER -> M

\* sel is Fg as the switch reads it, fg is Fg as the renderer reads it
\* through the reference it is passed
ForegroundLayer(M, sel, fg, time) ==
  CASE sel.Mode \in {"Time", "TimeRainbow"} -> disp_time(M, time, fg)
    [] sel.Mode = "None" -> M
    [] sel.Mode = "Cycle" ->
         LET c == M.cycle_counter
             M1 == disp_number(M, (c \div 1000) % 10, (c \div 100) % 10,
                               (c \div 10) % 10, c % 10, fg)
         IN [M1 EXCEPT !.cycle_counter = IF c + 1 >= 10000 THEN 0 ELSE c + 1]
    [] OTHER -> M

\* the tick as it would be were the frame shown before the warnings
WarningLayerSkipped(M, ei, i) == M

RECURSIVE WarningLayer(_, _, _)
WarningLayer(M, ei, i) ==
  IF i >= NUM_INDICATORS THEN M
  ELSE LET M1 == CASE ei[i] = 1 -> Put(M, ErrorIndicatorAdr(i), DarkOrange)
                   [] ei[i] = 2 -> Put(M, ErrorIndicatorAdr(i), Red)
                   [] OTHER -> M
       IN WarningLayer(M1, ei, i + 1)

\* one layer's result with its stores set apart
NextLayer(M) == [M EXCEPT !.w = {}]

\* the calls of RTC_TIME.now() an eligible tick makes
ClockReads(fr, sel) ==
  (IF fr.Mode = "Time" THEN 1 ELSE 0)
  + (IF sel.Mode \in {"Time", "TimeRainbow"} THEN 1 ELSE 0)

\* The body of update_LEDs(): m is what millis() returns, tFr and tFg what
\* RTC_TIME.now() returns in the frame and in the foreground switch, R the
\* random draws, sel and draw what the member Fg holds when the foreground
\* switch and the renderer read it.
update_LEDs_body(m, tFr, tFg, R, sel, draw) ==
  /\ currentMillis' = m
  /\ IF FrameDue(m, previousMillis)
     THEN \E B \in {BackgroundLayer(Work, Bg, R, build)} :
          \E F \in {FrameLayer(NextLayer(B), Fr, tFr)} :
          \E G \in {ForegroundLayer(NextLayer(F), sel, draw, tFg)} :
          \E W \in {WarningLayer(NextLayer(G), ErrorIndicator, 0)} :
             /\ previousMillis' = m
             /\ leds' = W.leds
             /\ twinkles' = W.twinkles
             /\ raindrops' = W.raindrops
             /\ fireworks' = W.fireworks
             /\ bg_colour' = W.bg_colour
             /\ bg_counter' = W.bg_counter
             /\ cycle_counter' = W.cycle_counter
             /\ wr' = [bg |-> B.w, fr |-> F.w, fg |-> G.w, ov |-> W.w,
                       pp |-> W.pp, lat |-> W.lat]
             /\ sink' = W.leds
             /\ shows' = shows + 1
             /\ now' = [fr |-> tFr, fg |-> tFg, reads |-> ClockReads(Fr, sel)]
             /\ seen' = [sel |-> sel, draw |-> draw]
             /\ op' = "tick"
     ELSE /\ op' = "skip"
          /\ UNCHANGED <<previousMillis, leds, twinkles, raindrops, fireworks,
                         bg_colour, bg_counter, cycle_counter, wr, sink, shows,
                         now, seen>>
  /\ UNCHANGED <<Bg, Fr, ErrorIndicator, build, ret, globals>>

\* update_LEDs() with no setter running beside it
update_LEDs(m, tFr, tFg, R) ==
  /\ update_LEDs_body(m, tFr, tFg, R, Fg, Fg)
  /\ UNCHANGED Fg

(***************************************************************************)
(* Setters                                                                 *)
(***************************************************************************)
others == <<leds, bg_colour, currentMillis, previousMillis, cycle_counter,
            bg_counter, twinkles, raindrops, fireworks, build, wr, sink, shows,
            now, seen, ret, globals>>

setBackgroundMode(mode) ==
  /\ Bg' = [Bg EXCEPT !.Mode = mode]
  /\ op' = "setBackgroundMode"
  /\ UNCHANGED <<Fg, Fr, ErrorIndicator, others>>

\* the setter as it would be were it to repaint the buffer itself
setBackgroundColorRepaints(color) ==
  /\ Bg' = [Bg EXCEPT !.Color = color]
  /\ leds' = [i \in Pixels |-> color]
  /\ op' = "setBackgroundColor"
  /\ UNCHANGED <<Fg, Fr, ErrorIndicator, bg_colour, currentMillis,
                 previousMillis, cycle_counter, bg_counter, twinkles,
                 raindrops, fireworks, build, wr, sink, shows, now, seen, ret,
                 globals>>

setBackgroundColor(color) ==
  /\ Bg' = [Bg EXCEPT !.Color = color]
  /\ op' = "setBackgroundColor"
  /\ UNCHANGED <<Fg, Fr, ErrorIndicator, others>>

setFrameMode(mode) ==
  /\ Fr' = [Fr EXCEPT !.Mode = mode]
  /\ op' = "setFrameMode"
  /\ UNCHANGED <<Fg, Bg, ErrorIndicator, others>>

setFrameColor(color) ==
  /\ Fr' = [Fr EXCEPT !.Color = color]
  /\ op' = "setFrameColor"
  /\ UNCHANGED <<Fg, Bg, ErrorIndicator, others>>

setForegroundMode(mode, TextSlanted) ==
  /\ Fg' = [Fg EXCEPT !.is_slant = TextSlanted, !.Mode = mode]
  /\ op' = "setForegroundMode"
  /\ UNCHANGED <<Bg, Fr, ErrorIndicator, others>>

setForegroundColor(color) ==
  /\ Fg' = [Fg EXCEPT !.Color = color]
  /\ op' = "setForegroundColor"
  /\ UNCHANGED <<Bg, Fr, ErrorIndicator, others>>

\* the setter as it would be were statusOk ignored
setWarningAlways(indicator, statusOk, Level) ==
  /\ ErrorIndicator' =
       IF indicator < NUM_INDICATORS
       THEN [ErrorIndicator EXCEPT ![indicator] = Level]
       ELSE ErrorIndicator
  /\ op' = "setWarning"
  /\ UNCHANGED <<Fg, Bg, Fr, others>>

setWarning(indicator, statusOk, Level) ==
  /\ ErrorIndicator' =
       IF indicator < NUM_INDICATORS
       THEN [ErrorIndicator EXCEPT ![indicator] = IF statusOk THEN 0 ELSE Level]
       ELSE ErrorIndicator
  /\ op' = "setWarning"
  /\ UNCHANGED <<Fg, Bg, Fr, others>>

(***************************************************************************)
(* The timer animation of the control plane (main.cpp)                     *)
(***************************************************************************)
TIME_MINUTEINSECONDS == 60

\* the timer as it would be with its thresholds inclusive
SetTimerAnimationInclusive(timeSecondsPassedInDay, timeSecondsTimerEnds) ==
  LET timeLeft == timeSecondsTimerEnds - timeSecondsPassedInDay
  IN /\ IF timeSecondsTimerEnds <= timeSecondsPassedInDay
        THEN /\ Fr' = [Fr EXCEPT !.Mode = "None"]
             /\ ret' = TRUE
        ELSE /\ Fr' = IF timeLeft <= 1 * TIME_MINUTEINSECONDS
                      THEN [Mode |-> "Time", Color |-> Red]
                      ELSE IF timeLeft <= 3 * TIME_MINUTEINSECONDS
                      THEN [Mode |-> "Time", Color |-> DarkOrange]
                      ELSE IF timeLeft <= 6 * TIME_MINUTEINSECONDS
                      THEN [Mode |-> "Time", Color |-> LightBlue]
                      ELSE Fr
             /\ ret' = FALSE
     /\ op' = "SetTimerAnimation"
     /\ UNCHANGED <<Fg, Bg, ErrorIndicator, leds, bg_colour, currentMillis,
                    previousMillis, cycle_counter, bg_counter, twinkles,
                    raindrops, fireworks, build, wr, sink, shows, now, seen,
                    globals>>

\* SetTimerAnimation(): both arguments are seconds since 00:00 (uint)
SetTimerAnimation(timeSecondsPassedInDay, timeSecondsTimerEnds) ==
  LET timeLeft == timeSecondsTimerEnds - timeSecondsPassedInDay
  IN /\ IF timeSecondsTimerEnds < timeSecondsPassedInDay
        THEN /\ Fr' = [Fr EXCEPT !.Mode = "None"]
             /\ ret' = TRUE
        ELSE /\ Fr' = IF timeLeft < 1 * TIME_MINUTEINSECONDS
                      THEN [Mode |-> "Time", Color |-> Red]
                      ELSE IF timeLeft < 3 * TIME_MINUTEINSECONDS
                      THEN [Mode |-> "Time", Color |-> DarkOrange]
                      ELSE IF timeLeft < 6 * TIME_MINUTEINSECONDS
                      THEN [Mode |-> "Time", Color |-> LightBlue]
                      ELSE Fr
             /\ ret' = FALSE
     /\ op' = "SetTimerAnimation"
     /\ UNCHANGED <<Fg, Bg, ErrorIndicator, leds, bg_colour, currentMillis,
                    previousMillis, cycle_counter, bg_counter, twinkles,
                    raindrops, fireworks, build, wr, sink, shows, now, seen,
                    globals>>

(***************************************************************************)
(* The object after new PLedDisp().  The constructor's                     *)
(* "CHSV bg_colour(64, 255, 190)" declares a local; the member bg_colour   *)
(* and the prev_pos arrays have no initializer and hold whatever the heap  *)
(* held: gc and gw.                                                        *)
(***************************************************************************)
T(h, m, s) == [h |-> h, m |-> m, s |-> s]

\* struct StateMachine as main.cpp declares SmaTime
NO_STATE == 99
StateMachine == [doInitAction |-> TRUE, actualState |-> 0, oldState |-> NO_STATE]

Members(b, gw, gc, fg, bg, fr, ei, cc) ==
  /\ Fg = fg
  /\ Bg = bg
  /\ Fr = fr
  /\ leds = [i \in Pixels |-> Black]
  /\ bg_colour = gc
  /\ ErrorIndicator = ei
  /\ currentMillis = U32(0, 0)
  /\ previousMillis = U32(0, 0)
  /\ cycle_counter = cc
  /\ bg_counter = 0
  /\ twinkles = [i \in TwinkleSlots |-> [pos |-> -1, stage |-> 0]]
  /\ raindrops = [i \in RainSlots |->
                    [pos |-> -1, stage |-> 0, lightning |-> 0,
                     prev_pos |-> [k \in 0 .. (PREV_POS_LEN - 1) |-> gw]]]
  /\ fireworks = [i \in FireworkSlots |->
                    [pos |-> -1, direction |-> 0, stage |-> 0, hue |-> 0,
                     height_offset |-> 0]]
  /\ build = b
  /\ op = "new"
  /\ wr = [bg |-> {}, fr |-> {}, fg |-> {}, ov |-> {}, pp |-> {}, lat |-> {}]
  /\ sink = [i \in Pixels |-> Black]
  /\ shows = 1
  /\ now = [fr |-> T(0, 0, 0), fg |-> T(0, 0, 0), reads |-> 0]
  /\ seen = [sel |-> fg, draw |-> fg]
  /\ ret = FALSE
  /\ globals = [SmaTime |-> StateMachine, ClockInManualMode |-> FALSE,
                NbrRepeatTrainAnimation |-> 0, pc |-> "wait",
                prev |-> StateMachine.oldState,
                before |-> StateMachine.oldState, manual |-> FALSE]

FgDefault == [Mode |-> "Time", Color |-> Peru, is_slant |-> TRUE]
BgDefault == [Mode |-> "SolidColor", Color |-> Black]
FrDefault == [Mode |-> "None", Color |-> DarkGrey]
NoWarnings == [i \in Indicators |-> 0]

Constructed(b, gw, gc) ==
  Members(b, gw, gc, FgDefault, BgDefault, FrDefault, NoWarnings, 0)

\* The constructed object after the control plane has set the three modes
\* (setForegroundMode, setBackgroundMode, setFrameMode) and before the
\* first update.
Configured(b, gw, gc, fgm, slant, bgm, frm) ==
  Members(b, gw, gc, [FgDefault EXCEPT !.Mode = fgm, !.is_slant = slant],
          [BgDefault EXCEPT !.Mode = bgm], [FrDefault EXCEPT !.Mode = frm],
          NoWarnings, 0)

(***************************************************************************)
(* Inputs                                                                  *)
(***************************************************************************)
\* what uninitialised heap words and bytes may hold
GarbageWords == {0, NUM_LEDS}
GarbageColours == {[hue |-> 0, sat |-> 0, val |-> 0],
                   [hue |-> 200, sat |-> 255, val |-> 190]}

\* random draws that spawn nothing; heap is the word a lookup past the last
\* constant table of the object reads
Calm ==
  [spawn |-> 255, tpos |-> 0, rpos |-> 0, light |-> 0, left |-> {},
   skyHi |-> {}, fpos |-> 0, fdir |-> 0, fhue |-> 0, foff |-> 0,
   pitH |-> {}, pitV |-> {}, heap |-> 0]

Rows(a, b) == {<<l, i>> : l \in a .. b, i \in 0 .. (LATTICE_COLS - 1)}

\* draws that spawn: a twinkle at pixel p, a firework from raw byte r in
\* every attribute, a raindrop from raw column byte r (lightning or not)
TwinkleAt(p) == [Calm EXCEPT !.spawn = 0, !.tpos = p]
FireworkOf(rp, rd, ro, hue) ==
  [Calm EXCEPT !.spawn = 0, !.fpos = rp, !.fdir = rd, !.foff = ro,
               !.fhue = hue]
DropOf(r, lightning) ==
  [Calm EXCEPT !.spawn = 0, !.rpos = r,
               !.light = IF lightning THEN 255 ELSE 0]
Embers(s) == [Calm EXCEPT !.pitH = s, !.pitV = s]

\* a small set of draws for each background
Draws(mode) ==
  CASE mode = "Twinkle" -> {Calm, TwinkleAt(118)}
    [] mode = "Fireworks" -> {Calm, FireworkOf(255, 255, 255, 7)}
    [] mode = "Thunderstorm" -> {DropOf(0, FALSE), DropOf(255, TRUE)}
    [] mode = "Firepit" -> {Embers({}), Embers(Rows(3, 6)), Embers(Rows(3, 5))}
    [] OTHER -> {Calm}

\* one call of update_LEDs, d ms after the last one
Call(ds, ts, Rs) ==
  \E d \in ds, t \in ts, R \in Rs :
    update_LEDs(U32Add(currentMillis, d), t, t, R)

\* a whole frame interval has passed
Due == {FRAME_TIME_MS + 1}

(***************************************************************************)
(* Spec: one object under each background; the control plane sets and      *)
(* clears warnings before the render task starts to tick (a tick reads     *)
(* only the severities stored when it runs, and repaints every layer).     *)
(***************************************************************************)
MaxTicks == 1
MaxWarnings == 2

Setups ==
  {<<"adjacent", NUM_LEDS, "Time", FALSE, "Thunderstorm", "SolidColor">>,
   <<"elided", 0, "TimeRainbow", TRUE, "ScrollingRainbow", "Time">>,
   <<"adjacent", 0, "Cycle", FALSE, "Twinkle", "None">>,
   <<"elided", NUM_LEDS, "None", FALSE, "Firepit", "SolidColor">>,
   <<"elided", 0, "None", FALSE, "Firepit", "None">>,
   <<"adjacent", 0, "Time", TRUE, "Fireworks", "Time">>,
   <<"elided", 0, "Cycle", TRUE, "SolidColor", "None">>,
   <<"elided", 0, "TimeRainbow", FALSE, "None", "SolidColor">>}

Init ==
  \E s \in Setups, gc \in GarbageColours :
    /\ gc.hue = (IF s[1] = "adjacent" THEN 200 ELSE 0)
    /\ Configured(s[1], s[2], gc, s[3], s[4], s[5], s[6])

Tick ==
  /\ shows <= MaxTicks
  /\ Call(Due, {T(13, 45, 30)}, Draws(Bg.Mode))

Warn ==
  /\ op # "tick"
  /\ \E i \in 0 .. NUM_INDICATORS, ok \in BOOLEAN, level \in 1 .. 2 :
       /\ setWarning(i, ok, level)
       /\ Cardinality({j \in Indicators : ErrorIndicator'[j] # 0}) <= MaxWarnings

Next == Tick \/ Warn

Spec == Init /\ [][Next]_vars

\* C2: after every eligible tick, an indicator whose stored severity is 1
\* has DarkOrange at its fixed pixel (118, 119, 127, 126 for indicators
\* 0..3), one whose severity is 2 has Red there, and the overlay makes no
\* store to the pixel of an indicator whose severity is 0.
OverlayWins ==
  op = "tick" =>
    \A i \in 0 .. 3 :
      LET a == <<118, 119, 127, 126>>[i + 1]
      IN /\ ErrorIndicator[i] = 1 => leds[a] = CRGB(255, 140, 0)
         /\ ErrorIndicator[i] = 2 => leds[a] = CRGB(255, 0, 0)
         /\ ErrorIndicator[i] = 0 => a \notin wr.ov

\* an error on indicator 0 and a warning on indicator 2, over a background
\* and a frame that both stored to their pixels in the same tick
OverlayOverLayers ==
  /\ op = "tick"
  /\ ErrorIndicator[0] = 2 /\ ErrorIndicator[2] = 1 /\ ErrorIndicator[1] = 0
  /\ {118, 127} \subseteq wr.bg /\ {118, 127} \subseteq wr.fr
  /\ wr.ov = {118, 127}
  /\ leds[118] = Red /\ leds[127] = DarkOrange

ShowAfterAllLayers ==
  [][IF op' = "tick"
     THEN /\ shows' = shows + 1
          /\ sink' = leds'
          /\ wr'.ov = {<<118, 119, 127, 126>>[i + 1] :
                        i \in {j \in 0 .. 3 : ErrorIndicator[j] \in {1, 2}}}
          /\ \A i \in 0 .. 3 :
               ErrorIndicator[i] \in {1, 2} =>
                 sink'[<<118, 119, 127, 126>>[i + 1]] =
                   (IF ErrorIndicator[i] = 1 THEN CRGB(255, 140, 0)
                    ELSE CRGB(255, 0, 0))
          /\ Fg.Mode = "Time" =>
               /\ wr'.fg # {}
               /\ \A i \in wr'.fg \ wr'.ov : sink'[i] = Fg.Color
          /\ Fr.Mode # "None" =>
               /\ wr'.fr # {}
               /\ \A i \in wr'.fr \ (wr'.fg \cup wr'.ov) : sink'[i] = Fr.Color
          /\ Bg.Mode = "SolidColor" =>
               \A i \in (0 .. 127) \ (wr'.fr \cup wr'.fg \cup wr'.ov) :
                 sink'[i] = Bg.Color
          /\ Bg.Mode \in {"SolidColor", "ScrollingRainbow"} =>
               (0 .. 127) \subseteq wr'.bg
     ELSE shows' = shows /\ sink' = sink]_vars

\* a frame shown with an error over the clock, a solid frame and a storm
FrameShownWhole ==
  /\ op = "tick"
  /\ shows = 2
  /\ Bg.Mode = "Thunderstorm" /\ Fr.Mode = "SolidColor" /\ Fg.Mode = "Time"
  /\ ErrorIndicator[0] = 2
  /\ sink[118] = Red /\ sink[14] = Peru /\ sink[68] = DarkGrey
  /\ sink = leds

\* C28: an eligible Firepit tick writes exactly the pixels of lattice rows
\* 3 to 6 and leaves rows 0 to 2 black; every written pixel has a hue in
\* 0 .. 7 and, k levels above the bottom row (k = 0 .. 3), a brightness in
\* [192 - 64k, 255 - 64k), so that every pixel of a higher level is dimmer
\* than every pixel of a lower one; the tick changes no particle pool.
\* Stated of the pixels the frame and the warning overlay leave alone.
FirepitBands ==
  [][op' = "tick" /\ Bg.Mode = "Firepit" =>
       LET over == wr'.fr \cup wr'.fg \cup wr'.ov
           row(l) == {led_address(l, c) : c \in 0 .. (LATTICE_COLS - 1)}
                       \cap Pixels
           pit == row(3) \cup row(4) \cup row(5) \cup row(6)
       IN /\ wr'.bg = pit
          /\ (row(0) \cup row(1) \cup row(2)) \cap pit = {}
          /\ \A a \in Pixels \ (pit \cup over) : leds'[a] = Black
          /\ \A l \in 3 .. 6 : \A a \in row(l) \ over :
               /\ leds'[a].k = "hsv"
               /\ leds'[a].x \in 0 .. 7
               /\ leds'[a].z >= 192 - 64 * (6 - l)
               /\ leds'[a].z < 255 - 64 * (6 - l)
               /\ \A h \in 3 .. (l - 1) : \A b \in row(h) \ over :
                    leds'[b].z < leds'[a].z
          /\ UNCHANGED <<twinkles, raindrops, fireworks>>]_vars

\* a firepit whose rows 3 to 5 burn at the top of their bands over a bottom
\* row at the foot of its band
FirepitLayered ==
  /\ op = "tick" /\ Bg.Mode = "Firepit"
  /\ leds[led_address(6, 8)] = CHSV(0, 255, 192)
  /\ leds[led_address(5, 8)] = CHSV(7, 255, 190)
  /\ leds[led_address(4, 8)] = CHSV(7, 255, 126)
  /\ leds[led_address(3, 8)] = CHSV(7, 255, 62)
  /\ leds[led_address(2, 8)] = Black

\* C29: in an eligible tick with Frame = SolidColor the frame layer stores
\* the frame colour to exactly the 44 pixels of the frame outline (44
\* distinct strip indices, all in 0 .. 127), over whatever the background
\* left there, and to no pixel outside the outline.
SolidFrameOutline ==
  (op = "tick" /\ Fr.Mode = "SolidColor") =>
    LET outline == {frame(i) : i \in 0 .. (framelength - 1)}
    IN /\ framelength = 44
       /\ Cardinality(outline) = 44
       /\ outline \subseteq Pixels
       /\ wr.fr = outline
       /\ \A a \in outline \ (wr.fg \cup wr.ov) : leds[a] = Fr.Color
       /\ Bg.Mode = "None" =>
            \A a \in Pixels \ (outline \cup wr.fg \cup wr.ov) :
              leds[a] = Black

\* the solid frame drawn over the bottom row of the firepit
FrameOverEmbers ==
  /\ op = "tick" /\ Fr.Mode = "SolidColor" /\ Bg.Mode = "Firepit"
  /\ led_address(6, 8) \in wr.bg \cap wr.fr
  /\ leds[led_address(6, 8)] = DarkGrey
  /\ led_address(5, 8) \in wr.bg \ wr.fr
  /\ leds[led_address(5, 8)] = CHSV(7, 255, 190)

(***************************************************************************)
(* SpecThrottle: update_LEDs called at, and one millisecond over, the      *)
(* frame interval after the call before, under configurations that use     *)
(* each pool, the hue cursor and the cycle counter.                        *)
(***************************************************************************)
MaxThrottleTicks == 2

Deltas == {FRAME_TIME_MS, FRAME_TIME_MS + 1}

ThrottleSetups ==
  {<<"Cycle", FALSE, "Twinkle", "Time">>,
   <<"TimeRainbow", TRUE, "ScrollingRainbow", "None">>,
   <<"Time", FALSE, "Thunderstorm", "SolidColor">>,
   <<"None", FALSE, "Fireworks", "None">>}

ThrottleInit ==
  \E s \in ThrottleSetups, b \in Builds :
    Configured(b, 0, [hue |-> 200, sat |-> 255, val |-> 190],
               s[1], s[2], s[3], s[4])

ThrottleTick ==
  /\ shows <= MaxThrottleTicks
  /\ Call(Deltas, {T(9, 7, 59)}, Draws(Bg.Mode))

SpecThrottle == ThrottleInit /\ [][ThrottleTick]_vars

\* the time between the tick that last rendered and the call just made
Elapsed == U32Sub(currentMillis, previousMillis)

\* C1: a call of update_LEDs made when no more than 20 ms have passed since
\* the last eligible tick changes neither the pixel buffer, the three
\* pools, the hue cursor, its throttle counter, the cycle counter nor the
\* stored last-tick time, and does not invoke show.
ThrottledCallIsNoOp ==
  [][(/\ currentMillis' # currentMillis
      /\ U32Sub(currentMillis', previousMillis).hi = 0
      /\ U32Sub(currentMillis', previousMillis).lo <= 20)
     => UNCHANGED <<leds, twinkles, raindrops, fireworks, bg_colour,
                    bg_counter, cycle_counter, previousMillis, shows, sink>>]_vars

\* a call throttled after a tick that left a live twinkle and a moved
\* cycle counter behind
ThrottledAfterTick ==
  /\ op = "skip"
  /\ shows = 2
  /\ Elapsed = U32(0, FRAME_TIME_MS)
  /\ cycle_counter = 1
  /\ \E i \in TwinkleSlots : twinkles[i].pos # -1

(***************************************************************************)
(* SpecWrap: update_LEDs called at, and one millisecond over, the frame    *)
(* interval, and after long pauses that take the millisecond clock up to   *)
(* and past 2^32.                                                          *)
(***************************************************************************)
MaxWrapTicks == 7

\* four of these fall 32 ms short of 2^32
LongPause == (HALF \div 4) * HALF - 8

WrapInit ==
  Configured("elided", 0, [hue |-> 200, sat |-> 255, val |-> 190],
             "Cycle", FALSE, "None", "None")

WrapTick ==
  /\ shows <= MaxWrapTicks
  /\ Call(Deltas \cup {LongPause}, {T(9, 7, 59)}, {Calm})

SpecWrap == WrapInit /\ [][WrapTick]_vars

\* C33: a call of update_LEDs is throttled exactly when millis() is one of
\* the 21 values previousMillis + 0 .. previousMillis + 20 taken modulo
\* 2^32, also when the clock has wrapped past 2^32 since the last eligible
\* tick; every other call is an eligible tick and stores its time.
ThrottleAcrossWrap ==
  [][/\ op' \in {"tick", "skip"}
     /\ op' = "skip" <=>
          \E k \in 0 .. FRAME_TIME_MS :
            currentMillis' = U32Add(previousMillis, k)
     /\ op' = "tick" =>
          previousMillis' = currentMillis' /\ shows' = shows + 1
     /\ op' = "skip" =>
          UNCHANGED <<previousMillis, shows, leds, cycle_counter>>]_vars

\* a call throttled 20 ms after an eligible tick, with the wrap of the
\* clock between the two
ThrottledPastWrap ==
  /\ op = "skip"
  /\ previousMillis.hi = HALF - 1
  /\ currentMillis.hi = 0
  /\ currentMillis = U32Add(previousMillis, FRAME_TIME_MS)
  /\ cycle_counter = shows - 1

(***************************************************************************)
(* SpecStorm: the thunderstorm over a freshly constructed object, for each *)
(* outcome of the store past prev_pos and each content of the heap.        *)
(***************************************************************************)
MaxStormTicks == 3

\* a drop in column 3, a drop in column 20, a lightning bolt in column 20
StormDraws == {Calm, DropOf(0, FALSE), DropOf(255, FALSE), DropOf(255, TRUE)}

StormInit ==
  \E b \in Builds, gw \in GarbageWords, gc \in GarbageColours :
    /\ gc.hue = 200
    /\ Configured(b, gw, gc, "None", FALSE, "Thunderstorm", "None")

StormTick ==
  /\ shows <= MaxStormTicks
  /\ Call(Due, {T(13, 45, 30)}, StormDraws)

SpecStorm == StormInit /\ [][StormTick]_vars

\* C3: no store of a background animation into the pixel buffer uses an
\* index outside [0, 128).
BackgroundStoresInBuffer ==
  op = "tick" => wr.bg \subseteq Pixels

\* C36: a tick with the Cycle foreground and a background other than
\* ScrollingRainbow changes neither the hue cursor nor its throttle
\* counter, and the hue cursor changes in no tick but those that run
\* bg_rainbow (background ScrollingRainbow) or disp_time in TimeRainbow
\* mode.
HueCursorOwned ==
  [][op' = "tick" =>
       /\ Fg.Mode = "Cycle" /\ Bg.Mode # "ScrollingRainbow" =>
            UNCHANGED <<bg_colour, bg_counter>>
       /\ bg_colour' # bg_colour =>
            Bg.Mode = "ScrollingRainbow" \/ Fg.Mode = "TimeRainbow"]_vars

(***************************************************************************)
(* SpecRainPool: raindrops falling down column 3 for seven ticks.          *)
(***************************************************************************)
MaxRainTicks == 7

RainPoolInit ==
  \E b \in Builds :
    Configured(b, 0, [hue |-> 200, sat |-> 255, val |-> 190],
               "None", FALSE, "Thunderstorm", "None")

RainPoolTick ==
  /\ shows <= MaxRainTicks
  /\ Call(Due, {T(13, 45, 30)}, {Calm, DropOf(0, FALSE)})

SpecRainPool == RainPoolInit /\ [][RainPoolTick]_vars

\* the slots of a pool that are in use
InUse(pool) == {i \in DOMAIN pool : pool[i].pos # -1}

\* C6: the pools never hold more than 8 twinkles, 16 raindrops and 5
\* fireworks in use, and one tick takes at most one free slot of a pool
\* into use (none when the pool has no free slot).
OneSlotPerTick ==
  [][op' = "tick" =>
       /\ Cardinality(InUse(twinkles')) <= 8
       /\ Cardinality(InUse(raindrops')) <= 16
       /\ Cardinality(InUse(fireworks')) <= 5
       /\ Cardinality(InUse(twinkles') \ InUse(twinkles)) <= 1
       /\ Cardinality(InUse(raindrops') \ InUse(raindrops)) <= 1
       /\ Cardinality(InUse(fireworks') \ InUse(fireworks)) <= 1]_vars

\* C27: every read and write of a raindrop's six-entry path array
\* prev_pos uses an index in 0 .. 5, at every stage a raindrop reaches, and
\* every lattice row the rain animation looks up is in 0 .. 6.
PrevPosIndexInRange ==
  op = "tick" =>
    /\ wr.pp \subseteq 0 .. (PREV_POS_LEN - 1)
    /\ \A cell \in wr.lat : cell[1] \in 0 .. (LATTICE_ROWS - 1)

(***************************************************************************)
(* SpecRainfall: raindrops and lightning bolts spawned in the first ticks  *)
(* of a thunderstorm and followed to the ground: a drop down column 3, a   *)
(* drop in column 19 and one in column 20, a drop that drifts left in      *)
(* every row, and bolts from column 10 and from column 19.                 *)
(***************************************************************************)
MaxRainfallTicks == 10
MaxSpawnTicks == 3

Rainfall ==
  {Calm, DropOf(0, FALSE), DropOf(230, FALSE), DropOf(255, FALSE),
   [DropOf(100, FALSE) EXCEPT !.left = 1 .. 6],
   [DropOf(100, TRUE) EXCEPT !.left = {2, 4}], DropOf(230, TRUE)}

RainfallInit ==
  \E b \in Builds, gw \in GarbageWords :
    Configured(b, gw, [hue |-> 200, sat |-> 255, val |-> 190],
               "None", FALSE, "Thunderstorm", "None")

\* followed while every lattice row a slot's stage can select lies within
\* the constant tables
RainfallTick ==
  /\ shows <= MaxRainfallTicks
  /\ \A i \in RainSlots :
       (raindrops[i].stage + 1) * LATTICE_COLS
         <= Len(led_address_flat) + Len(ConstTail)
  /\ Call(Due, {T(13, 45, 30)},
          IF shows <= MaxSpawnTicks THEN Rainfall ELSE {Calm})

SpecRainfall == RainfallInit /\ [][RainfallTick]_vars

\* C23: a raindrop flagged as lightning lights, in the tick that spawns it,
\* exactly one pixel in each of the lattice rows 1 to 6 in yellow and
\* records those six pixels in prev_pos; in each following tick up to
\* stage 6 it lights the six recorded pixels again, and in the tick in
\* which its stage reaches 7 it sets them to black and frees the slot.
\* Stated of a bolt that is alone in the pool, so that no other drop
\* colours its pixels.
BoltPath ==
  [][op' = "tick" =>
       \A i \in {s \in RainSlots :
                   InUse(raindrops) \cup InUse(raindrops') \subseteq {s}} :
         LET d == raindrops[i]
             e == raindrops'[i]
             row(j) == {led_address(j, c) : c \in 0 .. (LATTICE_COLS - 1)}
                         \cap Pixels
         IN /\ (d.pos = -1 /\ i = EmptySlot(raindrops, MAX_RAINDROPS)
                  /\ e.pos # -1 /\ e.lightning # 0) =>
                 /\ e.stage = 2
                 /\ \A j \in 1 .. 6 :
                      /\ e.prev_pos[j - 1] \in row(j)
                      /\ {a \in row(j) : a \in wr'.bg /\ leds'[a] = Yellow}
                           = {e.prev_pos[j - 1]}
            /\ (d.pos # -1 /\ d.lightning # 0 /\ d.stage \in 2 .. 6) =>
                 /\ e.prev_pos = d.prev_pos
                 /\ e.stage = d.stage + 1
                 /\ e.pos = (IF d.stage = 6 THEN -1 ELSE d.pos)
                 /\ \A k \in 0 .. 5 :
                      /\ d.prev_pos[k] \in Pixels
                      /\ leds'[d.prev_pos[k]] =
                           (IF d.stage = 6 THEN Black ELSE Yellow)]_vars

\* C24: a raindrop that is not lightning looks up, in its k-th tick from
\* the spawn (k = 1 .. 6), the cell at lattice row k and column c_k, where
\* c_k is c_(k-1) or c_(k-1) - 1, set to 0 when that is outside 0 .. 19,
\* and c_0 is the spawn column; it colours that pixel blue, or, if the cell
\* is absent, is freed in that tick.  The k-th tick is the one that finds
\* the drop at stage k: the spawn tick leaves stage 2 and every later tick
\* one more.  Stated of ticks with no lightning in the pool, so that no
\* bolt colours a drop's pixel.
DropFalls ==
  [][(op' = "tick" /\ \A j \in InUse(raindrops) \cup InUse(raindrops') :
                        raindrops[j].lightning = 0
                        /\ raindrops'[j].lightning = 0) =>
       \A i \in RainSlots :
         LET d == raindrops[i]
             e == raindrops'[i]
             spawned == d.pos = -1 /\ i = EmptySlot(raindrops, MAX_RAINDROPS)
                          /\ e # d
             k == IF spawned THEN 1 ELSE d.stage
             p == IF spawned THEN e.prev_pos[0] ELSE d.prev_pos[k - 1]
         IN (spawned \/ (d.pos # -1 /\ d.stage \in 1 .. 6)) =>
              \E c \in {ClampCol(p), ClampCol(p - 1)} :
                   /\ <<k, c>> \in wr'.lat
                   /\ k <= 5 => e.prev_pos[k] = c
                   /\ IF led_address(k, c) \in Pixels
                      THEN /\ leds'[led_address(k, c)] = CHSV(HUE_BLUE, 255, 128)
                           /\ e.stage = k + 1
                           /\ (e.pos = -1) = (k = 6)
                      ELSE e.pos = -1 /\ e.stage = 7]_vars

\* C25: every spawned raindrop, lightning or not, is freed (pos = -1) at
\* most 6 eligible ticks after its spawn, the spawn tick counted, and a
\* slot becomes free only in the tick in which its own stage reaches 7.
\* A drop is spawned at stage 1; every tick that finds it in flight takes
\* its stage at least one further, to 7 at most, and it is freed in the
\* tick that brings the stage to 7 and in no other.
DropFreedAtSeven ==
  [][op' = "tick" =>
       \A i \in RainSlots :
         LET d == raindrops[i]
             e == raindrops'[i]
             spawned == d.pos = -1 /\ i = EmptySlot(raindrops, MAX_RAINDROPS)
                          /\ e # d /\ e.stage \in {2, 7}
             stage == IF spawned THEN 1 ELSE d.stage
         IN /\ (spawned \/ (d.pos # -1 /\ d.stage \in 1 .. 6)) =>
                 /\ e.stage \in (stage + 1) .. 7
                 /\ (e.pos = -1) = (e.stage = 7)
            /\ (d.pos # -1 /\ e.pos = -1) =>
                 d.stage \in 1 .. 6 /\ e.stage = 7]_vars

\* C26: every raindrop is spawned at a column of the top lattice row that
\* holds an LED: the spawn column is in 3 .. 19, a column of the 20-column
\* lattice whose row-0 entry is not the absent sentinel.
SpawnColumnOnBoard ==
  [][op' = "tick" =>
       \A i \in RainSlots :
         LET d == raindrops[i]
             e == raindrops'[i]
             spawned == d.pos = -1 /\ i = EmptySlot(raindrops, MAX_RAINDROPS)
                          /\ e # d /\ e.stage \in {2, 7}
             column == IF e.pos # -1 THEN e.pos ELSE e.prev_pos[0]
         IN spawned =>
              /\ column \in 3 .. 19
              /\ column \in 0 .. (LATTICE_COLS - 1)
              /\ led_address(0, column) # ABSENT]_vars

(***************************************************************************)
(* SpecSmear: a thunderstorm in the build that keeps the store past        *)
(* prev_pos, followed for a long time after three drops: one in column 3,  *)
(* one in column 19 that is freed at the absent cell of row 4, one in      *)
(* column 3.  Once a slot's stage selects a row past the constant tables,  *)
(* the lookup reads a word of the heap.                                    *)
(***************************************************************************)
MaxSmearTicks == 116

SmearTick ==
  /\ shows <= MaxSmearTicks
  /\ Call(Due, {T(13, 45, 30)},
          CASE shows = 1 -> {DropOf(0, FALSE)}
            [] shows = 2 -> {DropOf(230, FALSE)}
            [] shows = 3 -> {DropOf(0, FALSE)}
            [] OTHER -> {[Calm EXCEPT !.heap = w] : w \in GarbageWords})

SpecSmear ==
  /\ Configured("adjacent", 0, [hue |-> 200, sat |-> 255, val |-> 190],
                "None", FALSE, "Thunderstorm", "None")
  /\ [][SmearTick]_vars

\* C31: an eligible tick changes only the particle pool of the selected
\* background: the pools of the other animations are as they were before
\* the tick, and the cycle counter is unchanged in every tick whose
\* foreground mode is not Cycle.
OnlyOwnPoolChanges ==
  [][op' = "tick" =>
       /\ Bg.Mode # "Twinkle" => twinkles' = twinkles
       /\ Bg.Mode # "Thunderstorm" => raindrops' = raindrops
       /\ Bg.Mode # "Fireworks" => fireworks' = fireworks
       /\ Fg.Mode # "Cycle" => cycle_counter' = cycle_counter]_vars

(***************************************************************************)
(* SpecTwinkle: the twinkle background alone (no frame, no foreground, no  *)
(* warnings), a few twinkles alight at a time, through a whole life of a   *)
(* twinkle and the tick after it.                                          *)
(***************************************************************************)
MaxTwinkleTicks == 18
MaxAlight == 1

TwinkleInit ==
  Configured("elided", 0, [hue |-> 200, sat |-> 255, val |-> 190],
             "None", FALSE, "Twinkle", "None")

TwinkleTick ==
  /\ shows <= MaxTwinkleTicks
  /\ Call(Due, {T(13, 45, 30)},
          IF Cardinality(InUse(twinkles)) < MaxAlight
          THEN {Calm, TwinkleAt(5), TwinkleAt(118)} ELSE {Calm})

SpecTwinkle == TwinkleInit /\ [][TwinkleTick]_vars

\* the lowest free slot of a pool
FirstFree(pool) ==
  CHOOSE i \in DOMAIN pool :
    pool[i].pos = -1 /\ \A j \in DOMAIN pool : pool[j].pos = -1 => i <= j

\* C7: in a Twinkle tick every twinkle alight is rendered at brightness
\* 8 x stage, 128 in the tick that spawns it at stage 16, and its stage
\* goes down by one, so that the brightness falls from tick to tick; when
\* the stage reaches 0 the slot is freed (pos = -1), and a twinkle spawned
\* in a tick takes the lowest slot that was free.
TwinkleFades ==
  [][op' = "tick" /\ Bg.Mode = "Twinkle" =>
       LET spawned == InUse(twinkles') \ InUse(twinkles)
           alight == InUse(twinkles) \cup spawned
           P(i) == IF i \in spawned THEN twinkles'[i].pos ELSE twinkles[i].pos
           S(i) == IF i \in spawned THEN 16 ELSE twinkles[i].stage
       IN /\ spawned # {} => spawned = {FirstFree(twinkles)}
          /\ \A i \in alight :
               /\ S(i) \in 1 .. 16
               /\ twinkles'[i].stage = S(i) - 1
               /\ twinkles'[i].pos = (IF S(i) = 1 THEN -1 ELSE P(i))
               /\ 8 * twinkles'[i].stage < 8 * S(i)
               /\ (\A j \in alight : j > i => P(j) # P(i))
                    => leds'[P(i)] = CRGB(8 * S(i), 8 * S(i), 8 * S(i))]_vars

\* the sixteenth tick of a twinkle: rendered at brightness 8, its slot freed
TwinkleBurntOut ==
  /\ op = "tick"
  /\ shows = 17
  /\ twinkles[0] = [pos |-> -1, stage |-> 0]
  /\ leds[5] = CRGB(8, 8, 8)

(***************************************************************************)
(* SpecFirework: the fireworks background alone, one shell in flight at a  *)
(* time, through a whole flight and the ticks after it.                    *)
(***************************************************************************)
MaxFireworkTicks == 26

Shells == {FireworkOf(0, 0, 0, 7), FireworkOf(255, 255, 255, 7),
           FireworkOf(128, 255, 0, 200)}

FireworkInit ==
  Configured("elided", 0, [hue |-> 200, sat |-> 255, val |-> 190],
             "None", FALSE, "Fireworks", "None")

FireworkTick ==
  /\ shows <= MaxFireworkTicks
  /\ Call(Due, {T(13, 45, 30)},
          IF InUse(fireworks) = {} THEN {Calm} \cup Shells ELSE {Calm})

SpecFirework == FireworkInit /\ [][FireworkTick]_vars

\* C8: in a Fireworks tick the stage of every shell in flight goes down by
\* exactly one, from 24 in the tick that spawns it (so 23 is stored after
\* that tick), whatever its position, direction, hue and height offset,
\* which the tick leaves as they are; a shell in flight has a stage in
\* 1..23, so the stage is 0 after at most 24 ticks, and in the tick that
\* brings the stage to 0 the slot is freed (pos = -1).
FireworkBurnsDown ==
  [][op' = "tick" /\ Bg.Mode = "Fireworks" =>
       LET spawned == InUse(fireworks') \ InUse(fireworks)
       IN /\ \A i \in spawned :
               /\ fireworks'[i].stage = 24 - 1
               /\ fireworks'[i].pos \in 3 .. 13
          /\ \A i \in InUse(fireworks) :
               /\ fireworks[i].stage \in 1 .. 23
               /\ fireworks'[i].stage = fireworks[i].stage - 1
               /\ fireworks'[i].pos =
                    (IF fireworks[i].stage = 1 THEN -1 ELSE fireworks[i].pos)
               /\ fireworks'[i].direction = fireworks[i].direction
               /\ fireworks'[i].hue = fireworks[i].hue
               /\ fireworks'[i].height_offset = fireworks[i].height_offset
          /\ \A i \in FireworkSlots \ InUse(fireworks') :
               fireworks'[i].stage = 0]_vars

\* the twenty-fourth tick of a shell spawned in the first: stage 0, slot free
FireworkSpent ==
  /\ op = "tick"
  /\ shows = 25
  /\ fireworks[0].pos = -1 /\ fireworks[0].stage = 0
  /\ fireworks[0].hue = 200 /\ fireworks[0].direction = 1

\* C22: a shell's stages run rising trail, inner six-point star at stages
\* 18 and 17, wider six-point star at stage 16, fade: the outer ring (the
\* six cells at distance 2 from the burst point) is written in the shell's
\* hue only at stage 16 and below and at no stage above 16, for both height
\* offsets; at stages 18 and 17 the inner ring is written at full
\* brightness, at stage 16 the outer ring.
OuterRingFromSixteen ==
  [][op' = "tick" /\ Bg.Mode = "Fireworks" =>
       \A i \in InUse(fireworks) :
         LET f == fireworks[i]
             y == 2 + f.height_offset
             x == f.pos + 4 * f.direction
             ring(d) == {led_address(c[1], c[2]) :
                           c \in {Star(x, y, d, Black)[k] : k \in 1 .. 6}}
                          \cap Pixels
         IN /\ f.stage > 16 =>
                 \A a \in ring(2) : ~(a \in wr'.bg /\ leds'[a].k = "hsv")
            /\ f.stage \in {17, 18} =>
                 \A a \in ring(1) : leds'[a] = CHSV(f.hue, 255, 255)
            /\ f.stage = 16 =>
                 \A a \in ring(2) : leds'[a] = CHSV(f.hue, 255, 255)]_vars

\* C35: whenever a tick renders a firework in the fade branch (the stage
\* is none of the trail, 18, 17 and 16, and above 0), the brightness
\* 16 x stage lies in 0..255, and it is below the brightness of the outer
\* ring the tick before rendered for that firework (255 at stage 16).
FadeBrightnessFits ==
  [][op' = "tick" /\ Bg.Mode = "Fireworks" =>
       \A i \in InUse(fireworks) :
         LET f == fireworks[i]
             fades(s) == /\ s # START_STAGE
                         /\ s < 20 + f.height_offset
                         /\ s \notin {16, 17, 18}
                         /\ s > 0
             before == IF f.stage + 1 = 16 THEN 255
                       ELSE FireworkBrightness(f.stage + 1)
         IN fades(f.stage) =>
              /\ FireworkBrightness(f.stage) \in 0 .. 255
              /\ (f.stage + 1 = 16 \/ fades(f.stage + 1)) =>
                   FireworkBrightness(f.stage) < before]_vars

(***************************************************************************)
(* SpecDigits: the foreground alone.  Every digit in every slot of the     *)
(* clock and of the cycle number, in both styles.  An object whose cycle   *)
(* counter stands at n has made n Cycle ticks.                             *)
(***************************************************************************)
MaxDigitTicks == 2

ClockTimes ==
  {T(13, 45, 30), T(9, 7, 59), T(0, 0, 0), T(1, 11, 30), T(2, 22, 30),
   T(3, 33, 30), T(4, 44, 30), T(5, 55, 30), T(6, 6, 30), T(7, 7, 30),
   T(8, 8, 30), T(10, 9, 30), T(23, 59, 30)}

CycleCounts == {0, 9, 10, 99, 100, 999, 1000} \cup {1111 * d : d \in 1 .. 9}

DigitsInit ==
  \E fgm \in {"Time", "TimeRainbow", "Cycle"}, slant \in BOOLEAN,
     cc \in CycleCounts :
    /\ fgm # "Cycle" => cc = 0
    /\ Members("elided", 0, [hue |-> 200, sat |-> 255, val |-> 190],
               [FgDefault EXCEPT !.Mode = fgm, !.is_slant = slant],
               [BgDefault EXCEPT !.Mode = "None"], FrDefault, NoWarnings, cc)

DigitsTick ==
  /\ shows <= MaxDigitTicks
  /\ Call(Due, IF Fg.Mode = "Cycle" THEN {T(13, 45, 30)} ELSE ClockTimes,
          {Calm})

SpecDigits == DigitsInit /\ [][DigitsTick]_vars

\* C4: every index the foreground stores to, for every digit in every slot
\* of the clock (offsets 0, 28, 70, 98) and of the cycle number (14, 42,
\* 70, 98), upright or slanted, lies in [0, 128).
DigitStoresInBuffer ==
  op = "tick" => wr.fg # {} /\ wr.fg \subseteq 0 .. 127

\* a slanted 2 in the first slot, whose entry 21 resolves to -6 and is
\* dropped: ten of its eleven pixels are stored, and below 28 there is
\* besides them only pixel 21 of the 3 in the second slot
SlantedEntryDropped ==
  /\ op = "tick"
  /\ Fg.Mode = "Time" /\ Fg.is_slant
  /\ now.fg = T(23, 59, 30)
  /\ 21 + 0 - 28 + 1 < 0
  /\ {i \in wr.fg : i < 28} = {3, 4, 5, 7, 9, 11, 14, 16, 24, 25} \cup {21}
  /\ wr.fg \subseteq 0 .. 127

\* C37: in the slanted style a glyph entry e at slot offset o resolves to
\* e + o - 28, and to one more when that is below 7.  At offset 0 the entry
\* 21 resolves to -6 and is not stored, so the digits 0, 2, 3, 5, 6, 8 and
\* 9 store one pixel fewer than their glyph has entries and the digits 1,
\* 4 and 7 as many; at the offsets 14, 28, 42, 70 and 98 every entry of
\* every digit is stored, each at a pixel of its own.  A slanted clock tick
\* accordingly stores the entries of its four digits, less one when the
\* tens of the hour are 0 or 2, and the two separator dots in even seconds;
\* a slanted cycle tick stores every entry of the digits it shows.
SlantedGlyphPixels ==
  LET fg == [Fg EXCEPT !.is_slant = TRUE]
      at(num, o) == LET st == DigitStores(num, o, fg, bg_colour)
                    IN {st[k][1] : k \in 1 .. Len(st)}
      entries(num) == {slant_digits(num, i) : i \in 0 .. (slant_digits_len(num) - 1)}
      short(num) == IF num \in {0, 2, 3, 5, 6, 8, 9} THEN 1 ELSE 0
  IN /\ \A num \in 0 .. 9, o \in {0, 14, 28, 42, 70, 98} :
          \A e \in entries(num) :
            SlantIndex(e, o) = e + o - 28 + (IF e + o - 28 < 7 THEN 1 ELSE 0)
     /\ SlantIndex(21, 0) = -6
     /\ \A num \in 0 .. 9 :
          /\ -6 \notin at(num, 0)
          /\ Cardinality(at(num, 0)) = slant_digits_len(num) - short(num)
          /\ \A o \in {14, 28, 42, 70, 98} :
               /\ Cardinality(at(num, o)) = slant_digits_len(num)
               /\ at(num, o) = {SlantIndex(e, o) : e \in entries(num)}
     /\ op = "tick" /\ Fg.is_slant /\ Fg.Mode \in {"Time", "TimeRainbow"} =>
          Cardinality(wr.fg) =
            slant_digits_len(now.fg.h \div 10) - short(now.fg.h \div 10)
            + slant_digits_len(now.fg.h % 10)
            + slant_digits_len(now.fg.m \div 10)
            + slant_digits_len(now.fg.m % 10)
            + (IF now.fg.s % 2 = 0 THEN 2 ELSE 0)
     /\ op = "tick" /\ Fg.is_slant /\ Fg.Mode = "Cycle" =>
          LET c == (cycle_counter + 9999) % 10000
          IN Cardinality(wr.fg) =
               (IF c >= 1000 THEN slant_digits_len((c \div 1000) % 10) ELSE 0)
               + (IF c >= 100 THEN slant_digits_len((c \div 100) % 10) ELSE 0)
               + (IF c >= 10 THEN slant_digits_len((c \div 10) % 10) ELSE 0)
               + slant_digits_len(c % 10)

\* a slanted 09:07 in an odd second: the 0 of the leftmost slot stores 11
\* of its 12 entries, the other three digits every entry
SlantedLeftmostZero ==
  /\ op = "tick"
  /\ Fg.Mode = "Time" /\ Fg.is_slant
  /\ now.fg = T(9, 7, 59)
  /\ Cardinality(wr.fg) = 11 + 12 + 12 + 8
  /\ {i \in wr.fg : i < 0} = {}

\* C10: foreground Time, upright, background None, frame None, no
\* warnings, 13:45:30: after the tick the foreground colour is on the
\* pixels of 1 at offset 0, 3 at offset 28, 4 at offset 70, 5 at offset 98
\* and on the separator pixels 66 and 64, and every other pixel is black.
ClockFace1345 ==
  (/\ op = "tick"
   /\ Fg.Mode = "Time" /\ ~Fg.is_slant
   /\ Bg.Mode = "None" /\ Fr.Mode = "None"
   /\ \A i \in Indicators : ErrorIndicator[i] = 0
   /\ now.fg = T(13, 45, 30))
  => LET one == {14, 15, 16, 17, 18}
         three == {7 + 28, 9 + 28, 11 + 28, 14 + 28, 16 + 28, 18 + 28,
                   22 + 28, 24 + 28}
         four == {9 + 70, 10 + 70, 11 + 70, 16 + 70, 18 + 70, 22 + 70, 24 + 70}
         five == {7 + 98, 9 + 98, 10 + 98, 11 + 98, 14 + 98, 16 + 98,
                  18 + 98, 22 + 98}
         lit == one \cup three \cup four \cup five \cup {66, 64}
     IN leds = [i \in 0 .. 127 |-> IF i \in lit THEN Fg.Color
                                   ELSE CRGB(0, 0, 0)]

\* the upright clock at 13:45:30 over an empty background and frame
ClockShows1345 ==
  /\ op = "tick"
  /\ Fg.Mode = "Time" /\ ~Fg.is_slant
  /\ Bg.Mode = "None" /\ Fr.Mode = "None"
  /\ \A i \in Indicators : ErrorIndicator[i] = 0
  /\ now.fg = T(13, 45, 30)
  /\ leds[64] = Peru /\ leds[14] = Peru /\ leds[0] = Black
  /\ sink = leds

\* the pixels of glyph num at a slot offset: the table entry plus the
\* offset, and in the slanted style less 28, one more below 7, and only
\* where that falls into the buffer
Glyph(num, offset, slant) ==
  IF slant
  THEN {i \in {IF e + offset - 28 < 7 THEN e + offset - 28 + 1
                ELSE e + offset - 28 :
                  e \in {slant_digits_rows[num + 1][k] :
                           k \in 1 .. slant_digits_len_row[num + 1]}} :
          i >= 0 /\ i < 128}
  ELSE {digits_rows[num + 1][k] + offset : k \in 1 .. digits_len_row[num + 1]}

\* C11: an eligible tick in foreground mode Cycle draws the value the cycle
\* counter holds (its decimal digits, leading zeros left out, in the slots
\* at 14, 42, 70 and 98) and then adds one to the counter, 9999 being
\* followed by 0; the counter is in 0..9999 in every state.
CycleCounterAdvances ==
  /\ [](cycle_counter \in 0 .. 9999)
  /\ [][op' = "tick" /\ Fg.Mode = "Cycle" =>
         LET v == cycle_counter
             d(k) == (v \div k) % 10
             g(k, o) == IF v >= k \/ k = 1 THEN Glyph(d(k), o, Fg.is_slant) ELSE {}
         IN /\ cycle_counter' = (IF v = 9999 THEN 0 ELSE v + 1)
            /\ wr'.fg = g(1000, 14) \cup g(100, 42) \cup g(10, 70) \cup g(1, 98)
            /\ wr'.fg # {}]_vars

\* the tick that drew 9999 upright and took the counter back to 0
CycleWrapped ==
  /\ op = "tick"
  /\ Fg.Mode = "Cycle" /\ ~Fg.is_slant
  /\ shows = 2
  /\ cycle_counter = 0
  /\ Cardinality(wr.fg) = 4 * 8
  /\ {7 + 14, 24 + 98} \subseteq wr.fg

\* C12: a tick in foreground mode Time or TimeRainbow draws the tens and
\* units of the hour in the slots at 0 and 28 and those of the minute in
\* the slots at 70 and 98; in an even second it also stores the foreground's
\* colour (Fg.Color in Time, the cursor's hue plus the index in
\* TimeRainbow) to pixel 66 and to pixel 59 (slanted) or 64 (upright), and
\* in an odd second it stores to none of 59, 64 and 66, which keep what the
\* layers below left there.
SeparatorBlinks ==
  (op = "tick" /\ Fg.Mode \in {"Time", "TimeRainbow"}) =>
    LET t == now.fg
        lower == IF Fg.is_slant THEN 59 ELSE 64
        colour(i) == IF Fg.Mode = "Time" THEN Fg.Color
                     ELSE [k |-> "hsv", x |-> (bg_colour.hue + i) % 256,
                           y |-> bg_colour.sat, z |-> bg_colour.val]
    IN /\ wr.fg \ {59, 64, 66} =
            Glyph(t.h \div 10, 0, Fg.is_slant) \cup Glyph(t.h % 10, 28, Fg.is_slant)
            \cup Glyph(t.m \div 10, 70, Fg.is_slant)
            \cup Glyph(t.m % 10, 98, Fg.is_slant)
       /\ t.s % 2 = 0 =>
            /\ wr.fg \cap {59, 64, 66} = {66, lower}
            /\ leds[66] = colour(66) /\ leds[lower] = colour(lower)
       /\ t.s % 2 = 1 =>
            /\ wr.fg \cap {59, 64, 66} = {}
            /\ (Bg.Mode = "None" /\ Fr.Mode = "None") =>
                 \A i \in {59, 64, 66} : leds[i] = CRGB(0, 0, 0)

\* the slanted rainbow clock in an odd second: no separator, black there
SeparatorDark ==
  /\ op = "tick"
  /\ Fg.Mode = "TimeRainbow" /\ Fg.is_slant
  /\ now.fg = T(9, 7, 59)
  /\ wr.fg \cap {59, 64, 66} = {}
  /\ leds[66] = Black /\ leds[59] = Black
  /\ wr.fg # {}

\* C13: when Cycle mode renders the value v, the thousands digit is drawn
\* (slot at 14) iff v >= 1000, the hundreds digit (42) iff v >= 100, the
\* tens digit (70) iff v >= 10 and the units digit (98) always; the
\* foreground stores to no pixel of the slot of a digit it leaves out.
LeadingZerosHidden ==
  [][op' = "tick" /\ Fg.Mode = "Cycle" =>
       LET v == cycle_counter
           slot(o) == UNION {Glyph(n, o, Fg.is_slant) : n \in 0 .. 9}
           drawn(k, o) ==
             /\ wr'.fg \cap slot(o) = Glyph((v \div k) % 10, o, Fg.is_slant)
             /\ wr'.fg \cap slot(o) # {}
           blank(o) == wr'.fg \cap slot(o) = {}
       IN /\ v \in 0 .. 9999
          /\ IF v >= 1000 THEN drawn(1000, 14) ELSE blank(14)
          /\ IF v >= 100 THEN drawn(100, 42) ELSE blank(42)
          /\ IF v >= 10 THEN drawn(10, 70) ELSE blank(70)
          /\ drawn(1, 98)]_vars

\* the value 9, upright: the units digit alone
LoneUnitsDigit ==
  /\ op = "tick"
  /\ Fg.Mode = "Cycle" /\ ~Fg.is_slant
  /\ shows = 2
  /\ cycle_counter = 10
  /\ wr.fg = {7 + 98, 9 + 98, 10 + 98, 11 + 98, 14 + 98, 16 + 98, 17 + 98,
              24 + 98}

\* C30: the colour the foreground gives the pixel at strip index i is the
\* hue (hue cursor + i) mod 256 at the cursor's saturation and value when
\* the foreground mode is TimeRainbow or Cycle, and the configured solid
\* foreground colour otherwise; resolving it changes no state: the tick
\* leaves the foreground configuration as it was, and the cursor too
\* unless the mode is TimeRainbow, whose hue step precedes the digits.
ForegroundColourResolved ==
  [][op' = "tick" =>
       /\ Fg' = Fg
       /\ Fg.Mode # "TimeRainbow" => bg_colour' = bg_colour
       /\ \A i \in wr'.fg :
            leds'[i] =
              (IF Fg.Mode \in {"TimeRainbow", "Cycle"}
               THEN [k |-> "hsv", x |-> (bg_colour'.hue + i) % 256,
                     y |-> bg_colour'.sat, z |-> bg_colour'.val]
               ELSE Fg.Color)]_vars

\* the cycle number drawn in the rainbow, the hue wrapped past 255
CycleInRainbow ==
  /\ op = "tick" /\ Fg.Mode = "Cycle"
  /\ bg_colour.hue = 200
  /\ 24 + 98 \in wr.fg
  /\ leds[24 + 98] = [k |-> "hsv", x |-> 66, y |-> 255, z |-> 190]

(***************************************************************************)
(* SpecFrame: the time frame alone, the clock read at any second and then  *)
(* at the same or the next one.                                            *)
(***************************************************************************)
MaxFrameTicks == 2

\* the time one second after t, within the hour
NextSecond(t) ==
  IF t.s < 59 THEN [t EXCEPT !.s = t.s + 1]
  ELSE [t EXCEPT !.s = 0, !.m = (t.m + 1) % 60]

FrameInit ==
  Configured("elided", 0, [hue |-> 200, sat |-> 255, val |-> 190],
             "None", FALSE, "None", "Time")

FrameTick ==
  /\ shows <= MaxFrameTicks
  /\ Call(Due,
          IF op = "new" THEN {T(13, 45, s) : s \in 0 .. 59}
          ELSE {now.fr, NextSecond(now.fr)},
          {Calm})

SpecFrame == FrameInit /\ [][FrameTick]_vars

\* C9: in Frame=Time mode a tick colours floor(second x 44 / 59) pixels,
\* clamped to [0, 44]: the first so many of the frame outline, all 44 at
\* second 59 and none at second 0; from a tick to the next within the
\* minute the coloured pixels only grow.
FrameSweeps ==
  [][op' = "tick" /\ Fr.Mode = "Time" =>
       LET s == now'.fr.s
           q == (s * 44) \div 59
           n == IF q < 0 THEN 0 ELSE IF q > 44 THEN 44 ELSE q
       IN /\ wr'.fr = {frame_row[k] : k \in 1 .. n}
          /\ Cardinality(wr'.fr) = n
          /\ \A i \in 0 .. 127 :
               leds'[i] = (IF i \in wr'.fr THEN Fr.Color ELSE CRGB(0, 0, 0))
          /\ s = 59 => Cardinality(wr'.fr) = 44
          /\ s = 0 => wr'.fr = {}
          /\ (op = "tick" /\ now.fr.s <= s) => wr.fr \subseteq wr'.fr]_vars

\* the full frame at second 59, after a tick at second 58
FrameFull ==
  /\ op = "tick"
  /\ shows = 3
  /\ now.fr.s = 59
  /\ Cardinality(wr.fr) = 44
  /\ leds[55] = DarkGrey /\ leds[68] = DarkGrey

\* C5: every entry of the 7 x 20 table led_address is the absent sentinel
\* 999 or a strip index in [0, 128); the entries that are not absent are
\* pairwise distinct, and together they are {0, ..., 127}.
LatticeAddresses ==
  LET cells == (0 .. 6) \X (0 .. 19)
      present == {c \in cells : led_address(c[1], c[2]) # 999}
  IN /\ \A c \in cells :
          led_address(c[1], c[2]) = 999 \/ led_address(c[1], c[2]) \in 0 .. 127
     /\ \A c, d \in present :
          led_address(c[1], c[2]) = led_address(d[1], d[2]) => c = d
     /\ {led_address(c[1], c[2]) : c \in present} = 0 .. 127
     /\ op = "tick" =>
          \A c \in wr.lat \cap present : led_address(c[1], c[2]) \in wr.bg

\* a lightning path that looked up an absent cell and a present one
LatticeLookedUp ==
  /\ op = "tick"
  /\ <<2, 0>> \in wr.lat /\ led_address(2, 0) = 999
  /\ <<3, 0>> \in wr.lat /\ 0 \in wr.bg
  /\ 999 \notin wr.bg

(***************************************************************************)
(* SpecControl: the control plane calls one setter, or the timer           *)
(* animation, between two calls of update_LEDs; the render task calls      *)
(* update_LEDs at and over the frame interval, and the clock may move on   *)
(* by a second between the two places a tick reads it.                     *)
(***************************************************************************)
MaxControlTicks == 1

\* when the timer of the 7:01 train ends (three minutes before it leaves),
\* and times of day around it
TimerEnds == 7 * 60 * TIME_MINUTEINSECONDS + 1 * TIME_MINUTEINSECONDS
             - 3 * TIME_MINUTEINSECONDS
TimerNows == {TimerEnds - left : left \in {-1, 0, 59, 60, 179, 180, 359, 360}}

ControlInit ==
  Constructed("elided", 0, [hue |-> 200, sat |-> 255, val |-> 190])

ControlCall ==
  /\ op \in {"new", "tick"}
  /\ \/ \E mode \in {"None", "ScrollingRainbow"} : setBackgroundMode(mode)
     \/ setBackgroundColor(Red)
     \/ setFrameMode("SolidColor")
     \/ setFrameColor(Red)
     \/ \E c \in {<<"TimeRainbow", FALSE>>, <<"Cycle", TRUE>>} :
          setForegroundMode(c[1], c[2])
     \/ setForegroundColor(White)
     \/ \E c \in {<<0, FALSE, 2>>, <<4, FALSE, 1>>} : setWarning(c[1], c[2], c[3])
     \/ \E n \in TimerNows : SetTimerAnimation(n, TimerEnds)

ControlTick ==
  /\ shows <= MaxControlTicks
  /\ \E d \in Deltas, tFg \in {T(6, 57, 59), NextSecond(T(6, 57, 59))} :
       update_LEDs(U32Add(currentMillis, d), T(6, 57, 59), tFg, Calm)

SpecControl == ControlInit /\ [][ControlCall \/ ControlTick]_vars

\* C15: a setter changes the configuration field it is named after (both
\* fields of the foreground mode for setForegroundMode, one indicator for
\* setWarning) and nothing else: not the pixel buffer, the pools, the hue
\* cursor and its throttle, the cycle counter or the tick times, and it
\* does not invoke show, so the sink keeps the frame of the last tick.
SettersTouchOnlyConfig ==
  [][op' \in {"setBackgroundMode", "setBackgroundColor", "setFrameMode",
              "setFrameColor", "setForegroundMode", "setForegroundColor",
              "setWarning"} =>
       /\ UNCHANGED <<leds, twinkles, raindrops, fireworks, bg_colour,
                      bg_counter, cycle_counter, currentMillis,
                      previousMillis, shows, sink>>
       /\ op' = "setBackgroundMode" =>
            Bg'.Color = Bg.Color /\ UNCHANGED <<Fg, Fr, ErrorIndicator>>
       /\ op' = "setBackgroundColor" =>
            Bg'.Mode = Bg.Mode /\ UNCHANGED <<Fg, Fr, ErrorIndicator>>
       /\ op' = "setFrameMode" =>
            Fr'.Color = Fr.Color /\ UNCHANGED <<Fg, Bg, ErrorIndicator>>
       /\ op' = "setFrameColor" =>
            Fr'.Mode = Fr.Mode /\ UNCHANGED <<Fg, Bg, ErrorIndicator>>
       /\ op' = "setForegroundMode" =>
            Fg'.Color = Fg.Color /\ UNCHANGED <<Bg, Fr, ErrorIndicator>>
       /\ op' = "setForegroundColor" =>
            /\ Fg'.Mode = Fg.Mode /\ Fg'.is_slant = Fg.is_slant
            /\ UNCHANGED <<Bg, Fr, ErrorIndicator>>
       /\ op' = "setWarning" => UNCHANGED <<Fg, Bg, Fr>>]_vars

\* the background colour set to Red after a tick: the sink still has black
ColourSetNotShown ==
  /\ op = "setBackgroundColor"
  /\ Bg.Mode = "SolidColor" /\ Bg.Color = Red
  /\ shows = 2
  /\ sink[0] = Black /\ leds[0] = Black

\* C18: an eligible tick calls the wall-clock source at most once, so that
\* with the frame in mode Time and the foreground in Time or TimeRainbow
\* the sweep and the digits of a tick come from one reading.
OneClockReading ==
  op = "tick" =>
    /\ now.reads <= 1
    /\ (Fr.Mode = "Time" /\ Fg.Mode \in {"Time", "TimeRainbow"}) => now.fr = now.fg

\* C20: SetTimerAnimation(now, end) returns true exactly when end < now, and
\* then sets the frame mode to None; otherwise it returns false and sets
\* the frame to mode Time in Red with less than 60 s left, in DarkOrange
\* with less than 180 s, in LightBlue with less than 360 s, and leaves the
\* frame as it is with 360 s or more left.
TimerAnimationSteps ==
  [][\A n \in TimerNows, e \in {TimerEnds} :
       SetTimerAnimation(n, e) =>
         /\ ret' = (e < n)
         /\ e < n => Fr'.Mode = "None"
         /\ e >= n =>
              Fr' = (IF e - n < 60 THEN [Mode |-> "Time", Color |-> CRGB(255, 0, 0)]
                     ELSE IF e - n < 180
                     THEN [Mode |-> "Time", Color |-> CRGB(255, 140, 0)]
                     ELSE IF e - n < 360
                     THEN [Mode |-> "Time", Color |-> CRGB(173, 216, 230)]
                     ELSE Fr)]_vars

\* the timer found ended by a call after one that had set the LightBlue
\* sweep
TimerEnded ==
  /\ op = "SetTimerAnimation"
  /\ ret
  /\ Fr = [Mode |-> "None", Color |-> LightBlue]
  /\ shows = 2

\* C34: between ticks a twinkle slot is free (pos = -1) exactly when its
\* stage is 0 and a twinkle in use has a stage in 1..15; a firework slot is
\* free exactly when its stage is 0 and a firework in use has a stage in
\* 1..23; a raindrop in use has a stage in 2..6.
PoolStagesInRange ==
  /\ \A i \in TwinkleSlots :
       /\ twinkles[i].pos = -1 <=> twinkles[i].stage = 0
       /\ twinkles[i].pos # -1 => twinkles[i].stage \in 1 .. (TWINKLE_STAGE - 1)
  /\ \A i \in FireworkSlots :
       /\ fireworks[i].pos = -1 <=> fireworks[i].stage = 0
       /\ fireworks[i].pos # -1 => fireworks[i].stage \in 1 .. (START_STAGE - 1)
  /\ \A i \in RainSlots :
       raindrops[i].pos # -1 => raindrops[i].stage \in 2 .. PREV_POS_LEN

(***************************************************************************)
(* SpecRepaint: the control plane paints the whole buffer red (background  *)
(* SolidColor, colour Red) in the first tick and then selects a background *)
(* between the ticks, so that each later tick starts from a buffer the     *)
(* previous background has filled.                                         *)
(***************************************************************************)
MaxRepaintTicks == 3

RepaintCall ==
  \/ op = "new" /\ setBackgroundColor(Red)
  \/ op = "tick" /\ \E mode \in ModeBG : setBackgroundMode(mode)

RepaintTick ==
  /\ op \notin {"new", "tick"}
  /\ shows <= MaxRepaintTicks
  /\ Call(Due, {T(13, 45, 30)}, Draws(Bg.Mode))

SpecRepaint == ControlInit /\ [][RepaintCall \/ RepaintTick]_vars

\* C32: under each of the seven backgrounds an eligible tick clears or
\* overwrites all 128 pixels: after the tick a pixel that no layer of the
\* tick has stored is black under None, Twinkle, Fireworks, Thunderstorm
\* and Firepit; under SolidColor and ScrollingRainbow the background has
\* stored every pixel, and a pixel no later layer has stored holds the
\* background colour, or the hue cursor's hue plus the pixel index.
TickRepaintsBuffer ==
  [][op' = "tick" =>
       LET later == wr'.fr \cup wr'.fg \cup wr'.ov
       IN /\ Bg.Mode \in ModeBG
          /\ Bg.Mode \in {"None", "Twinkle", "Fireworks", "Thunderstorm",
                          "Firepit"} =>
               \A i \in Pixels \ (wr'.bg \cup later) : leds'[i] = Black
          /\ Bg.Mode \in {"SolidColor", "ScrollingRainbow"} =>
               Pixels \subseteq wr'.bg
          /\ Bg.Mode = "SolidColor" =>
               \A i \in Pixels \ later : leds'[i] = Bg.Color
          /\ Bg.Mode = "ScrollingRainbow" =>
               \A i \in Pixels \ later :
                 leds'[i] = CHSV((bg_colour'.hue + i) % 256, bg_colour'.sat,
                                 bg_colour'.val)]_vars

\* the tick after the red one has run under Twinkle with a twinkle alight:
\* the pixels around it, red before the tick, are black
RedBufferCleared ==
  /\ op = "tick" /\ shows = 3 /\ Bg.Mode = "Twinkle"
  /\ InUse(twinkles) # {}
  /\ leds[0] = Black /\ leds[60] = Black

(***************************************************************************)
(* SpecManual: the control plane of main.cpp.  The main task (priority 1)  *)
(* sets the warnings, reads ClockInManualMode and calls UpdateTimeSma; the *)
(* MQTT task (priority 2, no core affinity, no lock) runs callback() for   *)
(* each message and may do so between any two statements of the main       *)
(* task: here between the read of ClockInManualMode and UpdateTimeSma.     *)
(***************************************************************************)
TIME_HOURINSECONDS == 60 * TIME_MINUTEINSECONDS
TIME_DAYINSECONDS == 24 * TIME_HOURINSECONDS

\* enum class StateTime
StateTime == [Idle |-> 0, Morning |-> 1, Day |-> 2, Evening |-> 3, Night |-> 4]

\* CRGB(uint32_t colorcode)
ColourOf(code) == CRGB((code \div 65536) % 256, (code \div 256) % 256, code % 256)

\* the state selection as it would be with the night starting at 00:00:00
ActualStateFromMidnight(t, cur) ==
  IF t < (13 * TIME_HOURINSECONDS) \div 2 THEN StateTime.Night
  ELSE IF t < (17 * TIME_HOURINSECONDS) \div 2 THEN StateTime.Morning
  ELSE IF t < (35 * TIME_HOURINSECONDS) \div 2 THEN StateTime.Day
  ELSE StateTime.Evening

\* the state UpdateTimeSma selects at t seconds since 00:00; cur is the
\* state it keeps when no branch is taken
ActualState(t, cur) ==
  LET timeStartRoutineNight == 1 * TIME_MINUTEINSECONDS
      timeStartRoutineMorning == (13 * TIME_HOURINSECONDS) \div 2
      timeStartRoutineDay == (17 * TIME_HOURINSECONDS) \div 2
      timeStartRoutineEvening == (35 * TIME_HOURINSECONDS) \div 2
  IN IF t >= timeStartRoutineNight /\ t < timeStartRoutineMorning
     THEN StateTime.Night
     ELSE IF t >= timeStartRoutineMorning /\ t < timeStartRoutineDay
     THEN StateTime.Morning
     ELSE IF t >= timeStartRoutineDay /\ t < timeStartRoutineEvening
     THEN StateTime.Day
     ELSE IF t >= timeStartRoutineEvening \/ t < timeStartRoutineNight
     THEN StateTime.Evening
     ELSE cur

\* SetTimerAnimation() as a function of the frame it finds
TimerAnimation(fr, timeSecondsPassedInDay, timeSecondsTimerEnds) ==
  LET timeLeft == timeSecondsTimerEnds - timeSecondsPassedInDay
  IN IF timeSecondsTimerEnds < timeSecondsPassedInDay
     THEN [Fr |-> [fr EXCEPT !.Mode = "None"], ret |-> TRUE]
     ELSE [Fr |-> IF timeLeft < 1 * TIME_MINUTEINSECONDS
                  THEN [Mode |-> "Time", Color |-> Red]
                  ELSE IF timeLeft < 3 * TIME_MINUTEINSECONDS
                  THEN [Mode |-> "Time", Color |-> DarkOrange]
                  ELSE IF timeLeft < 6 * TIME_MINUTEINSECONDS
                  THEN [Mode |-> "Time", Color |-> LightBlue]
                  ELSE fr,
           ret |-> FALSE]

rendered == <<leds, bg_colour, currentMillis, previousMillis, cycle_counter,
              bg_counter, twinkles, raindrops, fireworks, build, wr, sink,
              shows, now, seen>>

\* One round of the main task's loop up to the call of UpdateTimeSma.
TaskMainCode(StatusWlanOk) ==
  /\ globals.pc = "wait"
  /\ ErrorIndicator' = [ErrorIndicator EXCEPT ![0] = IF StatusWlanOk THEN 0 ELSE 2,
                                              ![2] = 0]
  /\ globals' = IF globals.ClockInManualMode = FALSE
                THEN [globals EXCEPT !.pc = "UpdateTimeSma"]
                ELSE [globals EXCEPT !.SmaTime.oldState = NO_STATE]
  /\ op' = "TaskMainCode"
  /\ UNCHANGED <<Fg, Bg, Fr, ret, rendered>>

\* UpdateTimeSma() with TIME_NOW at t seconds since 00:00 and recycling the
\* result of CheckDateForRecycling()
UpdateTimeSma(t, recycling) ==
  /\ globals.pc = "UpdateTimeSma"
  /\ LET timeStartRoutineMorningFirstTrain ==
           7 * TIME_HOURINSECONDS + 1 * TIME_MINUTEINSECONDS
         actualState == ActualState(t, globals.SmaTime.actualState)
         doInitAction == globals.SmaTime.oldState # actualState
         fr0 == IF ~doInitAction THEN Fr
                ELSE IF actualState = StateTime.Evening /\ recycling # 0
                THEN [Mode |-> "SolidColor", Color |-> ColourOf(recycling)]
                ELSE [Fr EXCEPT !.Mode = "None"]
         trains == IF doInitAction /\ actualState = StateTime.Morning
                   THEN 0 ELSE globals.NbrRepeatTrainAnimation
         timed == actualState = StateTime.Morning /\ trains < 4
         timeAlarmForNextTrain ==
           timeStartRoutineMorningFirstTrain
           + trains * 15 * TIME_MINUTEINSECONDS - 3 * TIME_MINUTEINSECONDS
         timer == TimerAnimation(fr0, t, timeAlarmForNextTrain)
     IN /\ Fg' = IF ~doInitAction THEN Fg
                 ELSE [Fg EXCEPT !.is_slant = TRUE, !.Mode = "Time",
                                 !.Color = IF actualState = StateTime.Idle
                                           THEN Peru ELSE @]
        /\ Bg' = IF doInitAction THEN [Bg EXCEPT !.Mode = "None"] ELSE Bg
        /\ Fr' = IF timed THEN timer.Fr ELSE fr0
        /\ ret' = IF timed THEN timer.ret ELSE ret
        /\ globals' =
             [globals EXCEPT
                !.SmaTime = [doInitAction |-> doInitAction,
                             actualState |-> actualState,
                             oldState |-> actualState],
                !.NbrRepeatTrainAnimation =
                   IF timed /\ timer.ret THEN trains + 1 ELSE trains,
                !.pc = "wait",
                !.prev = actualState,
                !.before = globals.prev,
                !.manual = @ /\ globals.ClockInManualMode]
  /\ op' = "UpdateTimeSma"
  /\ UNCHANGED <<ErrorIndicator, rendered>>

\* callback(): one MQTT message.  A key the message lacks reads as the
\* string "null" and the number 0.
callback(doc) ==
  LET manual == IF doc.Mode \in {"Auto", "Automatic"} THEN FALSE
                ELSE IF doc.Mode = "Manual" THEN TRUE
                ELSE globals.ClockInManualMode
      fg1 == IF doc.Foreground.Mode \in ModeFG
             THEN [Fg EXCEPT !.is_slant = doc.Foreground.Slanted,
                             !.Mode = doc.Foreground.Mode]
             ELSE Fg
      bg1 == IF doc.Background.Mode \in ModeBG
             THEN [Bg EXCEPT !.Mode = doc.Background.Mode] ELSE Bg
      fr1 == IF doc.Frame.Mode \in ModeFR
             THEN [Fr EXCEPT !.Mode = doc.Frame.Mode] ELSE Fr
      coloured(c, code) == IF code # 0 THEN [c EXCEPT !.Color = ColourOf(code)]
                           ELSE c
  IN /\ globals' = [globals EXCEPT !.ClockInManualMode = manual,
                                   !.manual = @ \/ manual]
     /\ Fg' = IF manual THEN coloured(fg1, doc.Foreground.Color) ELSE Fg
     /\ Bg' = IF manual THEN coloured(bg1, doc.Background.Color) ELSE Bg
     /\ Fr' = IF manual THEN coloured(fr1, doc.Frame.Color) ELSE Fr
     /\ op' = "callback"
     /\ UNCHANGED <<ErrorIndicator, ret, rendered>>

\* a manual message with every setting, a message with settings and no
\* "Mode" key, a message that switches back to automatic
Messages ==
  {[Mode |-> "Manual",
    Foreground |-> [Mode |-> "Cycle", Slanted |-> FALSE, Color |-> 255 * 65536],
    Background |-> [Mode |-> "Twinkle", Color |-> 0],
    Frame |-> [Mode |-> "SolidColor", Color |-> 255]],
   [Mode |-> "null",
    Foreground |-> [Mode |-> "TimeRainbow", Slanted |-> TRUE, Color |-> 0],
    Background |-> [Mode |-> "null", Color |-> 0],
    Frame |-> [Mode |-> "null", Color |-> 0]],
   [Mode |-> "Auto",
    Foreground |-> [Mode |-> "null", Slanted |-> FALSE, Color |-> 0],
    Background |-> [Mode |-> "null", Color |-> 0],
    Frame |-> [Mode |-> "null", Color |-> 0]]}

\* the first and the last second of each phase, and the minutes before
\* and the second after the first train's alarm at 06:58:00
DayTimes ==
  {0, 59, 60, 23399, 23400, 24700, 24980, 25081, 30599, 30600, 62999, 63000,
   TIME_DAYINSECONDS - 1}

\* recyclingCardboardColor = CRGB::Beige, or nothing to put out tomorrow
Recyclings == {0, 245 * 65536 + 245 * 256 + 220}

ManualInit ==
  Constructed("elided", 0, [hue |-> 200, sat |-> 255, val |-> 190])

ManualNext ==
  \/ \E ok \in BOOLEAN : TaskMainCode(ok)
  \/ \E t \in DayTimes, r \in Recyclings : UpdateTimeSma(t, r)
  \/ \E doc \in Messages : callback(doc)

SpecManual == ManualInit /\ [][ManualNext]_vars

\* C38: while the clock is in manual mode no step of the main task changes
\* the foreground, background or frame settings, whatever the order in
\* which the main task and the MQTT handler run; and the first call of
\* UpdateTimeSma in automatic mode after the handler has applied manual
\* settings runs the init action of the phase it selects.
ManualSettingsKept ==
  [][/\ globals.ClockInManualMode /\ op' \in {"TaskMainCode", "UpdateTimeSma"} =>
          UNCHANGED <<Fg, Bg, Fr>>
     /\ op' = "UpdateTimeSma" /\ globals.manual /\ ~globals.ClockInManualMode =>
          globals'.SmaTime.doInitAction]_vars

\* the seconds of the day in the phase each belongs to
PhaseOfSecond(t) ==
  IF t >= 60 /\ t < 6 * 3600 + 30 * 60 THEN 4
  ELSE IF t >= 6 * 3600 + 30 * 60 /\ t < 8 * 3600 + 30 * 60 THEN 1
  ELSE IF t >= 8 * 3600 + 30 * 60 /\ t < 17 * 3600 + 30 * 60 THEN 2
  ELSE 3

\* C39 with the init action tied to the call before alone: UpdateTimeSma
\* selects Night from 00:01:00 up to 06:30:00, Morning up to 08:30:00, Day
\* up to 17:30:00 and Evening for the rest of the day, 00:00:00 up to
\* 00:01:00 included; after
\* a call the state is not Idle; and a call runs the init action exactly
\* when the phase it selects is not the one the call before it selected
\* (no call before it: it runs).
InitOnPhaseChange ==
  /\ \A t \in 0 .. (TIME_DAYINSECONDS - 1) :
       ActualState(t, StateTime.Idle) = PhaseOfSecond(t)
  /\ [][op' = "UpdateTimeSma" =>
          /\ globals'.SmaTime.actualState # StateTime.Idle
          /\ globals'.SmaTime.doInitAction <=>
               globals'.SmaTime.actualState # globals.prev]_vars

\* C39: UpdateTimeSma selects Night from 00:01:00 up to 06:30:00, Morning
\* up to 08:30:00, Day up to 17:30:00 and Evening for the rest of the day,
\* 00:00:00 up to 00:01:00 included; after a call the state is not Idle;
\* and a call runs the init action exactly when the phase it selects is
\* not the one the call before it selected, when no call went before it,
\* and when the main task has found the clock in manual mode since the
\* call before it (SmaTime.oldState is 99).
InitOnPhaseChangeOrReset ==
  /\ \A t \in 0 .. (TIME_DAYINSECONDS - 1) :
       ActualState(t, StateTime.Idle) = PhaseOfSecond(t)
  /\ [][op' = "UpdateTimeSma" =>
          /\ globals'.SmaTime.actualState # StateTime.Idle
          /\ globals.SmaTime.oldState \in {globals.prev, NO_STATE}
          /\ globals'.SmaTime.doInitAction <=>
               \/ globals'.SmaTime.actualState # globals.prev
               \/ globals.SmaTime.oldState = NO_STATE]_vars

\* a call that has run the init action of Day again after manual mode: the
\* call before it selected Day as well
InitRunAgain ==
  /\ op = "UpdateTimeSma"
  /\ globals.SmaTime.doInitAction
  /\ globals.SmaTime.actualState = StateTime.Day
  /\ globals.before = StateTime.Day
  /\ Fg.Mode = "Time" /\ Bg.Mode = "None" /\ Fr.Mode = "None"

(***************************************************************************)
(* SpecHue: the hue cursor under its consumers: the TimeRainbow foreground *)
(* alone, the ScrollingRainbow background alone, and both.                 *)
(***************************************************************************)
MaxHueTicks == 14

HueInit ==
  \E c \in {<<"TimeRainbow", "None">>, <<"None", "ScrollingRainbow">>,
             <<"TimeRainbow", "ScrollingRainbow">>},
     slant \in BOOLEAN, gc \in GarbageColours :
    Configured("elided", 0, gc, c[1], slant, c[2], "None")

HueTick ==
  /\ shows <= MaxHueTicks
  /\ Call(Due, {T(13, 45, 30)}, {Calm})

SpecHue == HueInit /\ [][HueTick]_vars

\* C40: when the constructor has run and no tick has yet been made, the
\* hue cursor bg_colour holds hue 64, saturation 255, value 190.
HueCursorConstructed ==
  op = "new" => bg_colour = [hue |-> 64, sat |-> 255, val |-> 190]

\* C19: the hue cursor moves on by one step on every N-th eligible tick
\* and on no other, with one N for the ScrollingRainbow background alone,
\* the TimeRainbow foreground alone and both together.  Either consumer
\* alone steps it on every 13th tick (REFRESH_RATE_HZ / 4 ticks counted,
\* one to step), so N = 13.
HueCadence ==
  [][op' = "tick" =>
       bg_colour'.hue = (IF shows % 13 = 0 THEN (bg_colour.hue + 1) % 256
                         ELSE bg_colour.hue)]_vars

\* C21: with the ScrollingRainbow background and a foreground mode other
\* than TimeRainbow, the hue cursor moves on by one (mod 256) on every
\* REFRESH_RATE_HZ / 4 = 12th eligible tick and on no other, and every
\* eligible tick fills pixel i with the hue (hue cursor + i) mod 256 at the
\* cursor's saturation and value, for every i in 0 .. 127.
RainbowEveryTwelfth ==
  [][op' = "tick" /\ Bg.Mode = "ScrollingRainbow" /\ Fg.Mode # "TimeRainbow" =>
       /\ bg_colour'.hue = (IF shows % (REFRESH_RATE_HZ \div 4) = 0
                            THEN (bg_colour.hue + 1) % 256
                            ELSE bg_colour.hue)
       /\ wr'.bg = Pixels
       /\ \A i \in Pixels \ wr'.fg :
            leds'[i] = CHSV((bg_colour'.hue + i) % 256,
                            bg_colour'.sat, bg_colour'.val)]_vars

(***************************************************************************)
(* SpecRace: the render task in an eligible tick while the MQTT task runs  *)
(* setForegroundMode(mode, TextSlanted) on the same object, with no lock   *)
(* between them.  The setter stores is_slant and then Mode; the tick reads *)
(* Fg in the foreground switch and again, through the reference, in the    *)
(* renderer, and each read sees Fg before the setter's stores, between     *)
(* them or after them, a later read never an earlier value.                *)
(***************************************************************************)
MaxRaceTicks == 2

RaceInit ==
  \E gc \in GarbageColours :
    Configured("elided", 0, gc, "Time", TRUE, "None", "None")

RacingTick ==
  /\ shows <= MaxRaceTicks
  /\ \E c \in {<<"TimeRainbow", FALSE>>, <<"Time", FALSE>>, <<"Cycle", TRUE>>,
                <<"None", FALSE>>, <<"Time", TRUE>>},
        a \in 1 .. 3, b \in 1 .. 3 :
       LET mid == [Fg EXCEPT !.is_slant = c[2]]
           new == [mid EXCEPT !.Mode = c[1]]
           reads == <<Fg, mid, new>>
       IN /\ a <= b
          /\ update_LEDs_body(U32Add(currentMillis, FRAME_TIME_MS + 1),
                              T(13, 45, 30), T(13, 45, 30), Calm,
                              reads[a], reads[b])
          /\ Fg' = new

SpecRace == RaceInit /\ [][RacingTick]_vars

\* C17: with setForegroundMode running beside update_LEDs, a tick draws
\* from one configuration: the foreground mode and the slanted flag it
\* uses are those Fg held before the call or those the call set, the
\* renderer reads the mode that selected it, and in mode Time every pixel
\* the foreground stores gets the foreground colour.
OneConfigurationPerTick ==
  [][op' = "tick" =>
       /\ seen'.sel = seen'.draw
       /\ seen'.draw \in {Fg, Fg'}
       /\ seen'.sel.Mode = "Time" =>
            \A i \in wr'.fg : leds'[i] = Fg.Color]_vars

=============================================================================
